---------------------------- MODULE Spec2Model ----------------------------
(***************************************************************************)
(* Linux Command Library (LCL): the YAML loaders that build the command    *)
(* catalog, and the search / browse filter of the Textual CommandApp.      *)
(*                                                                         *)
(* Python strings are modelled as sequences of one-character strings, so   *)
(* that strip(), lower(), split(), replace() and the substring test "in"   *)
(* are computed character by character as Python computes them.            *)
(***************************************************************************)
EXTENDS Integers, Sequences, FiniteSets, TLC

VARIABLES
    fs,                 \* the data/commands tree: the YAML files, in directory-listing order
    docs,               \* CommandApp.docs: the catalog
    filtered_docs,      \* CommandApp.filtered_docs: the displayed result
    search_input,       \* the text in the #search_input box
    search_performed,   \* CommandApp._search_performed
    mounted,            \* on_mount has run
    replaced,           \* history: the last load_data replaced a non-empty catalog by
                        \* a different one
    last,               \* what happened last in the application: "init", "mount",
                        \* "type", "submit" or "reload"
    STRICT_CATEGORIES,  \* the strict-mode flag of the unified loader
    commands,           \* the list returned by the unified loader
    loaded,             \* init_command_library of the unified loader: "no" (not
                        \* called), "yes" (it returned commands) or "raised"
    noted,              \* history: a search seen earlier (its catalog, query and
                        \* result) and whether another query was searched since
    dialog,             \* NewCommandScreen: whether it is open, the parsed text of
                        \* its editor, its message, and (history) what the last
                        \* button handler did, in order
    screen              \* the main screen: the id of the focused widget ("none"
                        \* when no widget of the screen has the focus) and the
                        \* ids of the mounted detail widgets

vars == <<fs, docs, filtered_docs, search_input, search_performed, mounted, replaced,
          last, STRICT_CATEGORIES, commands, loaded, noted, dialog, screen>>

-----------------------------------------------------------------------------
(* Bounds of the model *)

\* number of files in the bulk directory beyond the partial-match cap
BulkExtra == 1

\* number of files of a tree besides the bulk directory (search specification)
MaxTreeFiles == 2

\* number of files of a tree handed to the loaders (loader specification)
MaxLoaderFiles == 2

\* the grouper specification: at most this many files in the tree
MaxGrouperFiles == 3

\* the dialog specification: no save once the tree holds this many files
MaxDialogFiles == 3

-----------------------------------------------------------------------------
(* Python str *)

\* the printable ASCII characters, in code-point order from 32 to 126 (the double quote,
\* the backslash and the backtick are named, not written)
Printable ==
    <<" ", "!", "DQUOTE", "#", "$", "%", "&", "'", "(", ")", "*", "+", ",", "-", ".", "/",
      "0", "1", "2", "3", "4", "5", "6", "7", "8", "9", ":", ";", "<", "=", ">", "?",
      "@", "A", "B", "C", "D", "E", "F", "G", "H", "I", "J", "K", "L", "M", "N", "O",
      "P", "Q", "R", "S", "T", "U", "V", "W", "X", "Y", "Z", "[", "BACKSLASH", "]", "^", "_",
      "BACKTICK", "a", "b", "c", "d", "e", "f", "g", "h", "i", "j", "k", "l", "m", "n", "o",
      "p", "q", "r", "s", "t", "u", "v", "w", "x", "y", "z", "{", "|", "}", "~">>

PrintableSet == {Printable[i] : i \in 1..Len(Printable)}

OrdTable ==
    [c \in PrintableSet |-> 31 + (CHOOSE i \in 1..Len(Printable) : Printable[i] = c)] @@ <<>>

\* ord(c)
Ord(c) == IF c = "\t" THEN 9 ELSE IF c = "\n" THEN 10 ELSE OrdTable[c]

\* str.isspace() of one character
IsSpace(c) == c \in {" ", "\t", "\n"}

\* str.lower() of one character
LowerChar(c) ==
    IF c \in PrintableSet /\ OrdTable[c] >= 65 /\ OrdTable[c] <= 90
    THEN Printable[OrdTable[c] + 32 - 31]
    ELSE c

\* the function f on 1..n as a list (a tuple whose elements are computed once)
AsList(f) == <<>> \o f

\* s.lower()
Lower(s) == AsList([i \in 1..Len(s) |-> LowerChar(s[i])])

\* s.strip()
Strip(s) ==
    LET keep == {i \in 1..Len(s) : ~IsSpace(s[i])}
    IN  IF keep = {} THEN <<>>
        ELSE LET lo == CHOOSE i \in keep : \A j \in keep : i <= j
                 hi == CHOOSE i \in keep : \A j \in keep : i >= j
             IN  SubSeq(s, lo, hi)

\* t in s
IsSubstring(t, s) ==
    \E i \in 0..(Len(s) - Len(t)) : SubSeq(s, i + 1, i + Len(t)) = t

\* s.replace(a, b) for single characters a and b
ReplaceChar(s, a, b) == AsList([i \in 1..Len(s) |-> IF s[i] = a THEN b ELSE s[i]])

\* s.split(): the maximal runs of non-whitespace characters, in order
Split(s) ==
    LET starts == {i \in 1..Len(s) : ~IsSpace(s[i]) /\ (i = 1 \/ IsSpace(s[i - 1]))}
        EndOf(i) == CHOOSE j \in i..Len(s) :
                        /\ \A k \in i..j : ~IsSpace(s[k])
                        /\ (j = Len(s) \/ IsSpace(s[j + 1]))
        Nth(n) == CHOOSE i \in starts : Cardinality({k \in starts : k < i}) = n - 1
    IN  AsList([n \in 1..Cardinality(starts) |-> SubSeq(s, Nth(n), EndOf(Nth(n)))])

\* a < b for two str (code-point lexicographic order)
StrLess(a, b) ==
    LET m == IF Len(a) < Len(b) THEN Len(a) ELSE Len(b)
        d == CHOOSE i \in 1..(m + 1) :
                 /\ (i = m + 1 \/ a[i] # b[i])
                 /\ \A j \in 1..(i - 1) : a[j] = b[j]
    IN  IF d = m + 1 THEN Len(a) < Len(b) ELSE Ord(a[d]) < Ord(b[d])

RECURSIVE Join(_, _)
\* sep.join(parts)
Join(sep, parts) ==
    IF Len(parts) = 0 THEN <<>>
    ELSE IF Len(parts) = 1 THEN parts[1]
    ELSE parts[1] \o sep \o Join(sep, Tail(parts))

RECURSIVE Flatten(_)
\* the concatenation of a sequence of sequences
Flatten(ss) == IF Len(ss) = 0 THEN <<>> ELSE ss[1] \o Flatten(Tail(ss))

\* sorted(s, key=...): stable, ascending by the str keys, key[i] being the key
\* of s[i].  Element i goes to the position that counts the elements with a
\* smaller key and the earlier elements with an equal key.
Sorted(s, key) ==
    LET n == Len(s)
        rank == AsList([i \in 1..n |->
                    1 + Cardinality({j \in 1..n :
                            \/ StrLess(key[j], key[i])
                            \/ (j < i /\ key[j] = key[i])})])
    IN  AsList([r \in 1..n |-> s[CHOOSE i \in 1..n : rank[i] = r]])

-----------------------------------------------------------------------------
(* YAML values *)

\* A value of an option entry: absent, a str, or a list of str.
NoVal == [t |-> "absent", s |-> <<>>, l |-> <<>>]
StrVal(x) == [t |-> "str", s |-> x, l |-> <<>>]
ListVal(xs) == [t |-> "list", s |-> <<>>, l |-> xs]

\* str(v) of a list of str: "['a', 'b']"
PyReprList(xs) ==
    <<"[">> \o Join(<<","," ">>, AsList([i \in 1..Len(xs) |-> <<"'">> \o xs[i] \o <<"'">>])) \o <<"]">>

\* str(v)
PyStr(v) == IF v.t = "list" THEN PyReprList(v.l) ELSE v.s

\* bool(v)
Truthy(v) == (v.t = "str" /\ v.s # <<>>) \/ (v.t = "list" /\ v.l # <<>>)

\* One element of an options list: a mapping (its keys flag, explains, flags,
\* explanation), a str, or a value of another type (text is its str()).
DictOption(flag, explains, flags, explanation) ==
    [kind |-> "dict", flag |-> flag, explains |-> explains,
     flags |-> flags, explanation |-> explanation, text |-> <<>>]
StrOption(x) ==
    [kind |-> "str", flag |-> NoVal, explains |-> NoVal,
     flags |-> NoVal, explanation |-> NoVal, text |-> x]
OtherOption(x) ==
    [kind |-> "other", flag |-> NoVal, explains |-> NoVal,
     flags |-> NoVal, explanation |-> NoVal, text |-> x]

\* The options field of a record: absent, a list, a mapping key -> value, or a scalar.
NoOptions == [shape |-> "absent", items |-> <<>>, entries |-> <<>>, text |-> <<>>]
ListOptions(items) == [shape |-> "list", items |-> items, entries |-> <<>>, text |-> <<>>]
DictOptions(entries) == [shape |-> "dict", items |-> <<>>, entries |-> entries, text |-> <<>>]
ScalarOptions(x) == [shape |-> "scalar", items |-> <<>>, entries |-> <<>>, text |-> x]

\* not options
OptionsFalsy(o) ==
    \/ o.shape = "absent"
    \/ o.shape = "list" /\ o.items = <<>>
    \/ o.shape = "dict" /\ o.entries = <<>>
    \/ o.shape = "scalar" /\ o.text = <<>>

-----------------------------------------------------------------------------
(* CommandApp._extract_options_text *)

\* "']: " in s or "']:" in s
Malformed(s) == IsSubstring(<<"'","]",":"," ">>, s) \/ IsSubstring(<<"'","]",":">>, s)

\* variant: every non-empty fragment is kept
Part_unfiltered(x) ==
    LET x_str == Strip(x)
    IN  IF x_str # <<>> THEN <<Lower(x_str)>> ELSE <<>>

\* what one stripped fragment contributes to options_text_parts
Part(x) ==
    LET x_str == Strip(x)
    IN  IF x_str # <<>> /\ ~Malformed(x_str) THEN <<Lower(x_str)>> ELSE <<>>

\* the parts one element of an options list contributes
OptionParts(option) ==
    IF option.kind = "dict"
    THEN (IF option.flag.t = "list"
          THEN Flatten(AsList([i \in 1..Len(option.flag.l) |-> Part(option.flag.l[i])]))
          ELSE Part(PyStr(option.flag)))
         \o (IF Truthy(option.explains) THEN Part(PyStr(option.explains)) ELSE <<>>)
    ELSE Part(option.text)

\* variant: only the key of an entry is searched
EntryParts_keys_only(e) == Part(e.k)

\* the parts one key -> value entry of an options mapping contributes
EntryParts(e) == Part(e.k) \o (IF e.vIsStr THEN Part(e.v) ELSE <<>>)

_extract_options_text(doc) ==
    LET options == doc.options
    IN  IF OptionsFalsy(options) THEN <<>>
        ELSE IF options.shape = "list"
        THEN Join(<<" ">>, Flatten(AsList([i \in 1..Len(options.items) |-> OptionParts(options.items[i])])))
        ELSE IF options.shape = "dict"
        THEN Join(<<" ">>, Flatten(AsList([i \in 1..Len(options.entries) |-> EntryParts(options.entries[i])])))
        ELSE Join(<<" ">>, Part(options.text))

-----------------------------------------------------------------------------
(* The source tree *)

\* A YAML mapping that describes one command.  A key that is absent has its flag
\* FALSE; a key that is present with an empty or null value has it TRUE and the
\* empty str.  isMap is FALSE for an element of a sequence that is no mapping.
Record(hasName, name, hasCategory, category, description, options) ==
    [isMap |-> TRUE, hasName |-> hasName, name |-> name,
     hasCategory |-> hasCategory, category |-> category,
     description |-> description, usage |-> <<>>, examples |-> <<>>,
     options |-> options]

\* A file of the tree: <base>/<dir>/<sub>/<stem>.<ext>, dir and sub possibly empty.
\* kind is what reading and parsing it gives: "mapping" (items holds the record),
\* "sequence" (items holds the elements), "scalar", "empty", "unparsable" or
\* "unreadable".
File(dir, stem, ext, kind, items) ==
    [dir |-> dir, sub |-> <<>>, stem |-> stem, ext |-> ext, kind |-> kind, items |-> items]

\* the path of a file
PathOf(f) == [dir |-> f.dir, sub |-> f.sub, stem |-> f.stem, ext |-> f.ext]

\* Path.name
FileName(f) == f.stem \o <<".">> \o f.ext

\* the distinct elements of a sequence, in first-seen order
FirstSeen(s) ==
    LET tagged == AsList([i \in 1..Len(s) |-> [i |-> i, v |-> s[i]]])
        IsFirst(x) == \A j \in 1..(x.i - 1) : s[j] # x.v
        firsts == SelectSeq(tagged, IsFirst)
    IN  AsList([n \in 1..Len(firsts) |-> firsts[n].v])

-----------------------------------------------------------------------------
(* app/yamlio.py *)

\* lines 72-83 and 96-98: whether a file of a category directory gives a document:
\* it is read and parsed, its top level is a non-empty mapping, and its name is
\* present and not empty
yamlio_accepts(yml_file) ==
    /\ yml_file.kind = "mapping"
    /\ yml_file.items[1].hasName
    /\ yml_file.items[1].name # <<>>

\* lines 85-93: the document of an accepted file
yamlio_document(yml_file, category_name) ==
    LET data == yml_file.items[1]
    IN  [name |-> data.name,
         category |-> IF ~data.hasCategory \/ data.category = <<>>
                      THEN category_name ELSE data.category,
         description |-> data.description,
         usage |-> data.usage,
         examples |-> data.examples,
         options |-> data.options,
         _source_file |-> PathOf(yml_file),
         _category_dir |-> category_name]

\* lines 57-102: the docs of one category directory
yamlio_load_dir(tree, category_name) ==
    LET InDir(f) == f.dir = category_name /\ f.sub = <<>>
        IsYml(f) == InDir(f) /\ f.ext = <<"y","m","l">>
        IsYaml(f) == InDir(f) /\ f.ext = <<"y","a","m","l">>
        all_yaml_files == SelectSeq(tree, IsYml) \o SelectSeq(tree, IsYaml)
        ordered == Sorted(all_yaml_files,
                          AsList([i \in 1..Len(all_yaml_files) |-> FileName(all_yaml_files[i])]))
        accepted == SelectSeq(ordered, yamlio_accepts)
    IN  AsList([i \in 1..Len(accepted) |-> yamlio_document(accepted[i], category_name)])

\* load_all_commands of app/yamlio.py
load_all_commands(tree) ==
    LET InSomeDir(f) == f.dir # <<>>
        nested == SelectSeq(tree, InSomeDir)
        category_dirs == FirstSeen(AsList([i \in 1..Len(nested) |-> nested[i].dir]))
        ordered == Sorted(category_dirs, category_dirs)
    IN  Flatten(AsList([i \in 1..Len(ordered) |-> yamlio_load_dir(tree, ordered[i])]))

-----------------------------------------------------------------------------
(* tui/app.py: the unified loader *)

ALLOWED_CATEGORIES ==
    {<<"A","r","c","h","i","v","e","_","C","o","m","p","r","e","s","s","i","o","n","_","M","g","m","t">>, <<"F","i","l","e","_","D","i","r","e","c","t","o","r","y","_","M","g","m","t">>, <<"H","a","r","d","w","a","r","e","_","K","e","r","n","e","l","_","T","o","o","l","s">>,
     <<"L","i","n","u","x","_","D","i","r","e","c","t","o","r","y","_","S","y","s","t","e","m">>, <<"N","e","t","w","o","r","k","i","n","g","_","T","o","o","l","s">>, <<"P","a","c","k","a","g","e","_","M","a","n","a","g","e","m","e","n","t">>,
     <<"P","e","r","m","i","s","s","i","o","n","_","a","n","d","_","O","w","n","e","r","s","h","i","p">>, <<"P","r","o","c","e","s","s","_","M","a","n","a","g","e","m","e","n","t">>,
     <<"S","e","a","r","c","h","i","n","g","_","a","n","d","_","F","i","l","t","e","r","i","n","g","_","M","a","n","a","g","e","m","e","n","t">>, <<"S","y","s","t","e","m","_","A","d","m","i","n","i","s","t","r","a","t","i","o","n">>,
     <<"S","y","s","t","e","m","_","I","n","f","o","r","m","a","t","i","o","n","_","a","n","d","_","M","o","n","i","t","o","r","i","n","g","_","M","a","n","a","g","e","m","e","n","t">>, <<"T","r","o","u","b","l","e","S","h","o","o","t","i","n","g","_","M","a","n","a","g","e","m","e","n","t">>,
     <<"U","s","e","r","_","a","n","d","_","G","r","o","u","p","_","M","a","n","a","g","e","m","e","n","t">>, <<"V","i","e","w","i","n","g","_","a","n","d","_","E","d","i","t","i","n","g","_","M","a","n","a","g","e","m","e","n","t">>, <<"W","i","l","d","C","a","r","d","s">>}

\* the files under tree that rglob(pattern) yields below the directory cat
RglobIn(tree, cat, ext) ==
    LET Matches(f) == f.dir = cat /\ f.ext = ext
    IN  SelectSeq(tree, Matches)

\* lines 102-109: the allowed category folders that exist, ascending, and under
\* each its *.yml files and then its *.yaml files, at any depth
_iter_category_yaml(tree) ==
    LET IsDir(cat) == \E i \in 1..Len(tree) : tree[i].dir = cat
        present == {cat \in ALLOWED_CATEGORIES : IsDir(cat)}
        Before(cat) == {other \in present : StrLess(other, cat)}
        ordered == AsList([r \in 1..Cardinality(present) |->
                       CHOOSE cat \in present : Cardinality(Before(cat)) = r - 1])
    IN  Flatten(AsList([r \in 1..Len(ordered) |->
            RglobIn(tree, ordered[r], <<"y","m","l">>) \o RglobIn(tree, ordered[r], <<"y","a","m","l">>)]))

\* lines 111-113: every *.yml file and then every *.yaml file, at any depth
_iter_all_yaml(tree) ==
    LET IsYml(f) == f.ext = <<"y","m","l">>
        IsYaml(f) == f.ext = <<"y","a","m","l">>
    IN  SelectSeq(tree, IsYml) \o SelectSeq(tree, IsYaml)

\* lines 115-121: the first component of the path below the base, which is the
\* file's own name for a file that lies in the base itself
_infer_category_from_path(yml_path) ==
    LET cat == IF yml_path.dir # <<>> THEN yml_path.dir ELSE FileName(yml_path)
    IN  IF cat \in ALLOWED_CATEGORIES \/ ~STRICT_CATEGORIES THEN cat ELSE <<"u","n","c","a","t","e","g","o","r","i","z","e","d">>

\* lines 123-132: None for an empty file and for one that does not parse, else
\* what the file holds.  (Reading an unreadable file raises instead.)
_load_yaml_file(fp) ==
    IF fp.kind \in {"empty", "unparsable"}
    THEN [kind |-> "None", items |-> <<>>]
    ELSE [kind |-> fp.kind, items |-> fp.items]

\* lines 146-150: setdefault("category", cat) fills the category only when the
\* key is absent; the name falls back to the file stem when absent or falsy
_attach_meta(obj, cat, fp) ==
    [name |-> IF ~obj.hasName \/ obj.name = <<>> THEN fp.stem ELSE obj.name,
     category |-> IF obj.hasCategory THEN obj.category ELSE cat,
     description |-> obj.description,
     usage |-> obj.usage,
     examples |-> obj.examples,
     options |-> obj.options,
     _source_path |-> PathOf(fp)]

\* lines 152-170: the commands one file gives
tui_file_commands(fp) ==
    LET data == _load_yaml_file(fp)
        cat == _infer_category_from_path(fp)
        IsDict(item) == item.isMap
        dicts == IF data.kind = "mapping" THEN data.items
                 ELSE IF data.kind = "sequence" THEN SelectSeq(data.items, IsDict)
                 ELSE <<>>
    IN  AsList([i \in 1..Len(dicts) |-> _attach_meta(dicts[i], cat, fp)])

\* lines 134-179, load_all_commands of tui/app.py: raised tells that read_text
\* raised on one of the files, which nothing catches
tui_load_all_commands(tree) ==
    LET files == IF STRICT_CATEGORIES THEN _iter_category_yaml(tree) ELSE _iter_all_yaml(tree)
    IN  [raised |-> \E i \in 1..Len(files) : files[i].kind = "unreadable",
         commands |-> Flatten(AsList([i \in 1..Len(files) |-> tui_file_commands(files[i])]))]

-----------------------------------------------------------------------------
(* CommandApp of app/app.py *)

\* the limit on partial matches
PartialCap == 50

\* the key of the sort within one category: x.get("name", "").lower()
NameLower(doc) == Lower(doc.name)

\* variant: the browse listing cut like a partial-match listing, ungrouped
_get_all_commands_capped(ds) ==
    SubSeq(ds, 1, IF Len(ds) < PartialCap THEN Len(ds) ELSE PartialCap)

\* variant: the sort within a category is not stable (equal keys come out in
\* the reverse of their input order)
_get_all_commands_by_category_unstable(ds) ==
    LET category_groups == FirstSeen(AsList([i \in 1..Len(ds) |-> ds[i].category]))
        ordered == Sorted(category_groups, category_groups)
        Group(category) ==
            LET InGroup(doc) == doc.category = category
                in_category == SelectSeq(ds, InGroup)
                commands_in_category ==
                    AsList([i \in 1..Len(in_category) |-> in_category[Len(in_category) + 1 - i]])
            IN  Sorted(commands_in_category,
                       AsList([i \in 1..Len(commands_in_category) |->
                                  NameLower(commands_in_category[i])]))
    IN  Flatten(AsList([i \in 1..Len(ordered) |-> Group(ordered[i])]))

\* lines 776-802: the catalog grouped by category, categories ascending, and
\* within a category ascending by lower-cased name (both sorts stable)
_get_all_commands_by_category(ds) ==
    LET category_groups == FirstSeen(AsList([i \in 1..Len(ds) |-> ds[i].category]))
        ordered == Sorted(category_groups, category_groups)
        Group(category) ==
            LET InGroup(doc) == doc.category = category
                commands_in_category == SelectSeq(ds, InGroup)
            IN  Sorted(commands_in_category,
                       AsList([i \in 1..Len(commands_in_category) |->
                                  NameLower(commands_in_category[i])]))
    IN  Flatten(AsList([i \in 1..Len(ordered) |-> Group(ordered[i])]))

\* variant: the name compared as written, without lower-casing it
ExactMatch_case_sensitive(doc, search_text) == search_text = doc.name

\* lines 369 and 378: name = doc.get("name", "").lower(); search_text == name
ExactMatch(doc, search_text) == search_text = Lower(doc.name)

\* variant: every word of the query has to occur, not just one of them
PartialMatch_all_words(doc, search_text) ==
    LET name == Lower(doc.name)
        category == Lower(doc.category)
        options_text == _extract_options_text(doc)
        search_words == Split(search_text)
    IN  \A w \in 1..Len(search_words) :
            \/ IsSubstring(search_words[w], name)
            \/ IsSubstring(search_words[w], category)
            \/ IsSubstring(search_words[w], options_text)

\* variant: without the special case of lines 396-398
PartialMatch_no_alias(doc, search_text) ==
    LET name == Lower(doc.name)
        category == Lower(doc.category)
        category_normalized == ReplaceChar(category, "_", " ")
        options_text == _extract_options_text(doc)
        search_words == Split(search_text)
    IN  \E w \in 1..Len(search_words) :
            \/ IsSubstring(search_words[w], name)
            \/ IsSubstring(search_words[w], category)
            \/ IsSubstring(search_words[w], category_normalized)
            \/ IsSubstring(search_words[w], options_text)

\* lines 382-398: the partial-match test of one document
PartialMatch(doc, search_text) ==
    LET name == Lower(doc.name)
        category == Lower(doc.category)
        category_normalized == ReplaceChar(category, "_", " ")
        options_text == _extract_options_text(doc)
        search_words == Split(search_text)
    IN  \/ \E w \in 1..Len(search_words) :
               \/ IsSubstring(search_words[w], name)
               \/ IsSubstring(search_words[w], category)
               \/ IsSubstring(search_words[w], category_normalized)
               \/ IsSubstring(search_words[w], options_text)
        \/ /\ IsSubstring(<<"n","e","t","w","o","r","k","i","n","g">>, search_text)
           /\ (IsSubstring(<<"n","e","t","w","o","r","k">>, category) \/ IsSubstring(<<"n","e","t","w","o","r","k">>, category_normalized))

\* line 357: value.strip().lower()
SearchText(value) == Lower(Strip(value))

\* variant: the latest PartialCap matches instead of the earliest
CapPartial_latest(partial_matches) ==
    SubSeq(partial_matches,
           IF Len(partial_matches) < PartialCap THEN 1
           ELSE Len(partial_matches) - PartialCap + 1,
           Len(partial_matches))

\* line 408: partial_matches[:50]
CapPartial(partial_matches) ==
    SubSeq(partial_matches, 1,
           IF Len(partial_matches) < PartialCap THEN Len(partial_matches) ELSE PartialCap)

\* variant: the exact matches first, the partial matches after them
SelectTier_blended(exact_matches, partial_matches) ==
    exact_matches \o partial_matches

\* lines 404-408: the exact matches if there is one, else the capped partial matches
SelectTier(exact_matches, partial_matches) ==
    IF exact_matches # <<>> THEN exact_matches ELSE CapPartial(partial_matches)

\* the new filtered_docs, for the catalog ds and the text value of the search box
_apply_filters_and_render(ds, value) ==
    LET search_text == SearchText(value)
        IsExact(doc) == ExactMatch(doc, search_text)
        IsPartial(doc) == ~ExactMatch(doc, search_text) /\ PartialMatch(doc, search_text)
        exact_matches == SelectSeq(ds, IsExact)
        partial_matches == SelectSeq(ds, IsPartial)
    IN  IF search_text = <<>> THEN _get_all_commands_by_category(ds)
        ELSE SelectTier(exact_matches, partial_matches)

\* lines 419-443: the rows of the #results table for the displayed result: name,
\* category, and the description cut to 50 characters and "..."
_update_results_table(filtered) ==
    AsList([i \in 1..Len(filtered) |->
        LET desc == filtered[i].description
        IN  <<filtered[i].name, filtered[i].category,
              IF Len(desc) > 50 THEN SubSeq(desc, 1, 50) \o <<".",".",".">> ELSE desc>>])

-----------------------------------------------------------------------------
(* app/validation.py, app/models.py, app/screens/new_command.py *)

\* a key of the candidate whose value is null
NullVal == [t |-> "null", s |-> <<>>, l |-> <<>>]

\* The mapping typed into the editor.  examples is "absent", "list", "str" or
\* "other" (a value of another type).
Candidate(name, command, title, category, description, usage, syntax, options, examples) ==
    [name |-> name, command |-> command, title |-> title, category |-> category,
     description |-> description, usage |-> usage, syntax |-> syntax,
     options |-> options, examples |-> examples]

\* app/models.py, lines 14-30
models_ALLOWED_CATEGORIES ==
    {<<"F","i","l","e","_","a","n","d","_","D","i","r","e","c","t","o","r","y","_","M","a","n","a","g","e","m","e","n","t">>, <<"A","r","c","h","i","v","e","_","C","o","m","p","r","e","s","s","i","o","n","_","M","a","n","a","g","e","m","e","n","t">>,
     <<"S","y","s","t","e","m","_","A","d","m","i","n","i","s","t","r","a","t","i","o","n">>, <<"N","e","t","w","o","r","k","_","S","e","c","u","r","i","t","y">>, <<"P","r","o","c","e","s","s","_","M","a","n","a","g","e","m","e","n","t">>,
     <<"T","e","x","t","_","P","r","o","c","e","s","s","i","n","g">>, <<"P","a","c","k","a","g","e","_","M","a","n","a","g","e","m","e","n","t">>, <<"H","a","r","d","w","a","r","e","_","I","n","f","o","r","m","a","t","i","o","n">>,
     <<"U","s","e","r","_","M","a","n","a","g","e","m","e","n","t">>, <<"D","i","s","k","_","M","a","n","a","g","e","m","e","n","t">>, <<"E","n","v","i","r","o","n","m","e","n","t","_","V","a","r","i","a","b","l","e","s">>, <<"J","o","b","_","C","o","n","t","r","o","l">>,
     <<"R","e","m","o","t","e","_","A","c","c","e","s","s">>, <<"D","e","v","e","l","o","p","m","e","n","t","_","T","o","o","l","s">>, <<"M","o","n","i","t","o","r","i","n","g","_","P","e","r","f","o","r","m","a","n","c","e">>}

\* app/models.py, line 33: STRICT_CATEGORIES = ALLOWED_CATEGORIES, a non-empty list
models_STRICT_CATEGORIES == models_ALLOWED_CATEGORIES # {}

\* line 18: isinstance(x, str) and x.strip() != ""
nonempty(x) == x.t = "str" /\ Strip(x.s) # <<>>

\* the issues of lines 19-37 for the allow-list allowed, as tags in the order of
\* the checks
Issues(doc, allowed) ==
    LET name == IF Truthy(doc.name) THEN doc.name
                ELSE IF Truthy(doc.command) THEN doc.command ELSE doc.title
        cat == IF Truthy(doc.category) THEN Strip(PyStr(doc.category)) ELSE <<>>
    IN  (IF ~nonempty(name) THEN <<"name">> ELSE <<>>)
        \o (IF cat = <<>> THEN <<"category missing">>
            ELSE IF cat \notin allowed THEN <<"category not allowed">> ELSE <<>>)
        \o (IF ~nonempty(doc.description) THEN <<"description">> ELSE <<>>)
        \o (IF ~(nonempty(doc.usage) \/ nonempty(doc.syntax)) THEN <<"usage">> ELSE <<>>)
        \o (IF doc.options.shape \notin {"absent", "list", "dict"} THEN <<"options">> ELSE <<>>)
        \o (IF doc.examples \notin {"absent", "list", "str"} THEN <<"examples">> ELSE <<>>)

\* app/validation.py, lines 15-38
_validate_doc_minimal(doc) == Issues(doc, models_ALLOWED_CATEGORIES)

\* tui/app.py, lines 361-384
tui_validate_doc_minimal(doc) == Issues(doc, ALLOWED_CATEGORIES)

\* str.isalnum() of one character
IsAlnum(ch) ==
    /\ ch \in PrintableSet
    /\ \/ (48 <= Ord(ch) /\ Ord(ch) <= 57)
       \/ (65 <= Ord(ch) /\ Ord(ch) <= 90)
       \/ (97 <= Ord(ch) /\ Ord(ch) <= 122)

\* lines 49-51: the file name made of str(doc.get("name", ""))
SafeName(doc) ==
    LET text == IF doc.name.t = "null" THEN <<"N","o","n","e">>
                ELSE IF doc.name.t = "list" THEN PyReprList(doc.name.l) ELSE doc.name.s
        safe == AsList([i \in 1..Len(text) |->
                           IF IsAlnum(text[i]) \/ text[i] \in {"-", "_"} THEN text[i] ELSE "_"])
    IN  IF safe = <<>> THEN <<"c","o","m","m","a","n","d">> ELSE safe

\* Path.exists() of <cat>/<stem>.yml in the tree
Exists(tree, cat, stem) ==
    \E k \in 1..Len(tree) :
        /\ tree[k].dir = cat /\ tree[k].sub = <<>>
        /\ tree[k].stem = stem /\ tree[k].ext = <<"y","m","l">>

\* the decimal digits of a number up to 99
Decimal(i) ==
    LET digits == <<"0","1","2","3","4","5","6","7","8","9">>
    IN  IF i < 10 THEN <<digits[i + 1]>> ELSE <<digits[(i \div 10) + 1], digits[(i % 10) + 1]>>

\* variant: the first name is taken whether it is free or not
TargetStem_overwriting(tree, doc) == SafeName(doc)

\* lines 53-57: the first of <safe>, <safe>-2, <safe>-3, ... that does not exist
TargetStem(tree, doc) ==
    LET safe == SafeName(doc)
        cat == doc.category.s
        Free(i) == ~Exists(tree, cat, safe \o <<"-">> \o Decimal(i))
    IN  IF ~Exists(tree, cat, safe) THEN safe
        ELSE safe \o <<"-">> \o
             Decimal(CHOOSE i \in 2..(Len(tree) + 2) : Free(i) /\ \A j \in 2..(i - 1) : ~Free(j))

\* what yaml.safe_load reads back from the file written by line 60: the keys of
\* the candidate that the loaders look at
WrittenRecord(doc) ==
    [isMap |-> TRUE,
     hasName |-> doc.name.t # "absent", name |-> doc.name.s,
     hasCategory |-> TRUE, category |-> doc.category.s,
     description |-> doc.description.s, usage |-> doc.usage.s, examples |-> <<>>,
     options |-> doc.options]

\* lines 41-63, a successful write_text: the tree with the new file; a file
\* of that path is replaced, the other files stay
_save_new_command(tree, doc) ==
    LET stem == TargetStem(tree, doc)
        Other(f) == ~(f.dir = doc.category.s /\ f.sub = <<>> /\ f.stem = stem /\ f.ext = <<"y","m","l">>)
    IN  SelectSeq(tree, Other)
        \o <<File(doc.category.s, stem, <<"y","m","l">>, "mapping", <<WrittenRecord(doc)>>)>>

-----------------------------------------------------------------------------
(* The trees and the search-box texts the model draws from *)

\* chr(n) of a printable code point
Chr(n) == Printable[n - 31]

grep_yml ==
    File(<<"T","e","x","t","_","P","r","o","c","e","s","s","i","n","g">>, <<"g","r","e","p">>, <<"y","m","l">>, "mapping",
         <<Record(TRUE, <<"g","r","e","p">>, TRUE, <<"T","e","x","t","_","P","r","o","c","e","s","s","i","n","g">>,
                  <<"p","r","i","n","t"," ","l","i","n","e","s"," ","m","a","t","c","h","i","n","g"," ","a"," ","p","a","t","t","e","r","n">>,
                  ListOptions(<<DictOption(ListVal(<<<<"-","v">>, <<"-","-","i","n","v","e","r","t","-","m","a","t","c","h">>>>),
                                           StrVal(<<"I","n","v","e","r","t"," ","t","h","e"," ","s","e","n","s","e"," ","o","f"," ","m","a","t","c","h","i","n","g">>),
                                           NoVal, NoVal)>>))>>)

egrep_yaml ==
    File(<<"T","e","x","t","_","P","r","o","c","e","s","s","i","n","g">>, <<"e","g","r","e","p">>, <<"y","a","m","l">>, "mapping",
         <<Record(TRUE, <<"e","g","r","e","p">>, FALSE, <<>>,
                  <<"e","x","t","e","n","d","e","d"," ","g","r","e","p">>,
                  DictOptions(<<[k |-> <<"-","c">>, vIsStr |-> TRUE, v |-> <<"C","o","u","n","t"," ","l","i","n","e","s">>]>>))>>)

GREP_yml ==
    File(<<"T","e","x","t","_","P","r","o","c","e","s","s","i","n","g">>, <<"G","R","E","P">>, <<"y","m","l">>, "mapping",
         <<Record(TRUE, <<"G","R","E","P">>, TRUE, <<"S","e","a","r","c","h","-","T","o","o","l","s">>, <<"u","p","p","e","r","-","c","a","s","e"," ","a","l","i","a","s">>, NoOptions)>>)

ls_yml ==
    File(<<"F","i","l","e","_","D","i","r","e","c","t","o","r","y","_","M","g","m","t">>, <<"l","s">>, <<"y","m","l">>, "mapping",
         <<Record(TRUE, <<"l","s">>, TRUE, <<>>, <<"l","i","s","t"," ","d","i","r","e","c","t","o","r","y"," ","c","o","n","t","e","n","t","s">>,
                  ListOptions(<<StrOption(<<"-","a">>), StrOption(<<"[","'","-","l","'","]",":"," ","l","o","n","g"," ","f","o","r","m","a","t">>)>>))>>)

dir_yml ==
    File(<<"F","i","l","e","_","D","i","r","e","c","t","o","r","y","_","M","g","m","t">>, <<"d","i","r">>, <<"y","m","l">>, "mapping",
         <<Record(TRUE, <<"l","s"," ">>, FALSE, <<>>, <<"l","i","s","t"," ","l","i","k","e"," ","l","s">>, NoOptions)>>)

ping_yml ==
    File(<<"N","e","t","w","o","r","k","i","n","g","_","T","o","o","l","s">>, <<"p","i","n","g">>, <<"y","m","l">>, "mapping",
         <<Record(TRUE, <<"p","i","n","g">>, FALSE, <<>>, <<"p","r","o","b","e"," ","a"," ","h","o","s","t">>, NoOptions)>>)

cron_yml ==
    File(<<"S","y","s","t","e","m","_","A","d","m","i","n","i","s","t","r","a","t","i","o","n">>, <<"c","r","o","n">>, <<"y","m","l">>, "mapping",
         <<Record(FALSE, <<>>, FALSE, <<>>, <<"n","e","t","w","o","r","k","i","n","g"," ","d","a","e","m","o","n"," ","s","c","h","e","d","u","l","e">>, NoOptions)>>)

\* the files of the small trees, in the order the directory listing gives them
Pool == <<ping_yml, ls_yml, dir_yml, GREP_yml, grep_yml, egrep_yaml, cron_yml>>

\* the number of files of the bulk directory: more than the cap, and one odd file
BulkCount == PartialCap + BulkExtra + 1

\* file i of the bulk directory WildCards: b01.yml, b02.yml, ...; every record is
\* named glob and takes its category from the directory, but for the third
BulkFile(i) ==
    File(<<"W","i","l","d","C","a","r","d","s">>, <<"b", Chr(48 + (i \div 10)), Chr(48 + (i % 10))>>, <<"y","m","l">>, "mapping",
         <<IF i = 3
           THEN Record(TRUE, <<"s","t","a","r">>, TRUE, <<"M","i","s","c">>, <<>>, NoOptions)
           ELSE Record(TRUE, <<"g","l","o","b">>, FALSE, <<>>, <<>>, NoOptions)>>)

BulkTree == AsList([i \in 1..BulkCount |-> BulkFile(i)])

\* the files of pool at the positions I, in the order of pool
SubPool(pool, I) ==
    LET tagged == AsList([i \in 1..Len(pool) |-> [i |-> i, f |-> pool[i]]])
        Chosen(x) == x.i \in I
        kept == SelectSeq(tagged, Chosen)
    IN  AsList([n \in 1..Len(kept) |-> kept[n].f])

SmallTrees ==
    {SubPool(Pool, I) : I \in {J \in SUBSET (1..Len(Pool)) : Cardinality(J) <= MaxTreeFiles}}

\* file i of a directory Networking_Tools with more files than the cap: n01.yml,
\* n02.yml, ...; every record is named nc and takes its category from the directory
NetworkFile(i) ==
    File(<<"N","e","t","w","o","r","k","i","n","g","_","T","o","o","l","s">>, <<"n", Chr(48 + (i \div 10)), Chr(48 + (i % 10))>>, <<"y","m","l">>, "mapping",
         <<Record(TRUE, <<"n","c">>, FALSE, <<>>, <<>>, NoOptions)>>)

NetworkTree == AsList([i \in 1..BulkCount |-> NetworkFile(i)])

systemctl_yml ==
    File(<<"S","y","s","t","e","m","_","A","d","m","i","n","i","s","t","r","a","t","i","o","n">>, <<"s","y","s","t","e","m","c","t","l">>, <<"y","m","l">>, "mapping",
         <<Record(TRUE, <<"s","y","s","t","e","m","c","t","l">>, FALSE, <<>>, <<"n","e","t","w","o","r","k","i","n","g"," ","d","a","e","m","o","n"," ","c","o","n","t","r","o","l">>, NoOptions)>>)

\* a record with a list of option mappings: in the first the flag holds the
\* marker and the explanation is clean, in the second one spelling of the flag
\* holds the marker
find_yml ==
    File(<<"F","i","l","e","_","D","i","r","e","c","t","o","r","y","_","M","g","m","t">>, <<"f","i","n","d">>, <<"y","m","l">>, "mapping",
         <<Record(TRUE, <<"f","i","n","d">>, FALSE, <<>>, <<"s","e","a","r","c","h"," ","f","o","r"," ","f","i","l","e","s">>,
                  ListOptions(<<DictOption(StrVal(<<"[","'","-","L","'","]",":"," ","f","o","l","l","o","w">>), StrVal(<<"l","o","n","g"," ","l","i","s","t","i","n","g">>),
                                           NoVal, NoVal),
                                DictOption(ListVal(<<<<"-","x">>, <<"[","'","-","y","'","]",":"," ","C","o","u","n","t">>>>), NoVal,
                                           NoVal, NoVal)>>))>>)

\* a record with a mapping of options: one key holds the marker, its value is clean
wc_yaml ==
    File(<<"T","e","x","t","_","P","r","o","c","e","s","s","i","n","g">>, <<"w","c">>, <<"y","a","m","l">>, "mapping",
         <<Record(TRUE, <<"w","c">>, FALSE, <<>>, <<"w","o","r","d"," ","c","o","u","n","t">>,
                  DictOptions(<<[k |-> <<"[","'","-","c","'","]",":"," ","n">>, vIsStr |-> TRUE, v |-> <<"C","o","u","n","t"," ","b","y","t","e","s">>],
                                [k |-> <<"-","w">>, vIsStr |-> TRUE, v |-> <<"w","o","r","d","s">>]>>))>>)

\* a record whose options are one scalar that holds the marker
du_yml ==
    File(<<"F","i","l","e","_","D","i","r","e","c","t","o","r","y","_","M","g","m","t">>, <<"d","u">>, <<"y","m","l">>, "mapping",
         <<Record(TRUE, <<"d","u">>, FALSE, <<>>, <<"d","i","s","k"," ","u","s","a","g","e">>, ScalarOptions(<<"[","'","-","h","'","]",":"," ","h","u","m","a","n">>))>>)

\* records with corrupted option entries next to clean ones
CorruptTree == <<find_yml, du_yml, wc_yaml, ls_yml, grep_yml>>

\* the option -v written as a mapping, as a list of one mapping with the keys
\* flags and explanation, and as a list of one mapping with the keys flag and
\* explains
cp_yml ==
    File(<<"F","i","l","e","_","D","i","r","e","c","t","o","r","y","_","M","g","m","t">>, <<"c","p">>, <<"y","m","l">>, "mapping",
         <<Record(TRUE, <<"c","p">>, FALSE, <<>>, <<"c","o","p","y"," ","f","i","l","e","s">>,
                  DictOptions(<<[k |-> <<"-","v">>, vIsStr |-> TRUE, v |-> <<"v","e","r","b","o","s","e"," ","o","u","t","p","u","t">>]>>))>>)

mv_yml ==
    File(<<"F","i","l","e","_","D","i","r","e","c","t","o","r","y","_","M","g","m","t">>, <<"m","v">>, <<"y","m","l">>, "mapping",
         <<Record(TRUE, <<"m","v">>, FALSE, <<>>, <<"m","o","v","e"," ","f","i","l","e","s">>,
                  ListOptions(<<DictOption(NoVal, NoVal, ListVal(<<<<"-","v">>>>),
                                           StrVal(<<"v","e","r","b","o","s","e"," ","o","u","t","p","u","t">>))>>))>>)

rm_yml ==
    File(<<"F","i","l","e","_","D","i","r","e","c","t","o","r","y","_","M","g","m","t">>, <<"r","m">>, <<"y","m","l">>, "mapping",
         <<Record(TRUE, <<"r","m">>, FALSE, <<>>, <<"r","e","m","o","v","e"," ","f","i","l","e","s">>,
                  ListOptions(<<DictOption(ListVal(<<<<"-","v">>>>), StrVal(<<"v","e","r","b","o","s","e"," ","o","u","t","p","u","t">>),
                                           NoVal, NoVal)>>))>>)

ShapeTree == <<cp_yml, mv_yml, rm_yml>>

\* a networking directory next to two other directories
AliasTree == <<ping_yml, systemctl_yml, grep_yml>>

\* the trees of the search specification
SearchTrees ==
    SmallTrees \cup {BulkTree, <<grep_yml>> \o BulkTree, NetworkTree, AliasTree, CorruptTree,
                    ShapeTree}

\* the trees of the application specification
AppTrees ==
    {<<>>, <<grep_yml, egrep_yaml>>, <<ping_yml, GREP_yml, grep_yml, cron_yml>>,
     <<cron_yml>>, BulkTree \o <<egrep_yaml>>}

\* two files of one directory whose records are named alike up to letter case,
\* and the same two records under exchanged file names
g1_yml ==
    File(<<"T","e","x","t","_","P","r","o","c","e","s","s","i","n","g">>, <<"g","1">>, <<"y","m","l">>, "mapping",
         <<Record(TRUE, <<"g","r","e","p">>, FALSE, <<>>, <<>>, NoOptions)>>)

g2_yml ==
    File(<<"T","e","x","t","_","P","r","o","c","e","s","s","i","n","g">>, <<"g","2">>, <<"y","m","l">>, "mapping",
         <<Record(TRUE, <<"G","R","E","P">>, FALSE, <<>>, <<>>, NoOptions)>>)

g1_upper_yml ==
    File(<<"T","e","x","t","_","P","r","o","c","e","s","s","i","n","g">>, <<"g","1">>, <<"y","m","l">>, "mapping",
         <<Record(TRUE, <<"G","R","E","P">>, FALSE, <<>>, <<>>, NoOptions)>>)

g2_lower_yml ==
    File(<<"T","e","x","t","_","P","r","o","c","e","s","s","i","n","g">>, <<"g","2">>, <<"y","m","l">>, "mapping",
         <<Record(TRUE, <<"g","r","e","p">>, FALSE, <<>>, <<>>, NoOptions)>>)

\* a record whose category is written in lower case
awk_yml ==
    File(<<"T","e","x","t","_","P","r","o","c","e","s","s","i","n","g">>, <<"a","w","k">>, <<"y","m","l">>, "mapping",
         <<Record(TRUE, <<"a","w","k">>, TRUE, <<"a","r","c","h","i","v","e">>, <<"p","a","t","t","e","r","n"," ","s","c","a","n","n","i","n","g">>, NoOptions)>>)

GrouperPool ==
    <<g1_yml, g2_yml, g1_upper_yml, g2_lower_yml, awk_yml, grep_yml, GREP_yml, egrep_yaml,
      ping_yml, ls_yml>>

\* the trees of the grouper specification
GrouperTrees ==
    LET DistinctPaths(I) ==
            \A i, j \in I : i # j => PathOf(GrouperPool[i]) # PathOf(GrouperPool[j])
    IN  {SubPool(GrouperPool, I) :
            I \in {J \in SUBSET (1..Len(GrouperPool)) :
                      Cardinality(J) <= MaxGrouperFiles /\ DistinctPaths(J)}}

\* an element of a YAML sequence that is no mapping
NonMapping ==
    [isMap |-> FALSE, hasName |-> FALSE, name |-> <<>>,
     hasCategory |-> FALSE, category |-> <<>>,
     description |-> <<>>, usage |-> <<>>, examples |-> <<>>, options |-> NoOptions]

\* Networking_Tools/rsync.yml in every shape of its record: the name absent,
\* present but empty, or "sync"; the category absent, present but empty, "Misc"
\* (outside the allow-list) or "WildCards" (in it)
ShapeFiles ==
    LET names == <<[has |-> FALSE, v |-> <<>>], [has |-> TRUE, v |-> <<>>],
                   [has |-> TRUE, v |-> <<"s","y","n","c">>]>>
        categories == <<[has |-> FALSE, v |-> <<>>], [has |-> TRUE, v |-> <<>>],
                        [has |-> TRUE, v |-> <<"M","i","s","c">>], [has |-> TRUE, v |-> <<"W","i","l","d","C","a","r","d","s">>]>>
    IN  AsList([k \in 1..(Len(names) * Len(categories)) |->
            LET n == names[((k - 1) \div Len(categories)) + 1]
                c == categories[((k - 1) % Len(categories)) + 1]
            IN  File(<<"N","e","t","w","o","r","k","i","n","g","_","T","o","o","l","s">>, <<"r","s","y","n","c">>, <<"y","m","l">>, "mapping",
                     <<Record(n.has, n.v, c.has, c.v, <<"c","o","p","y"," ","f","i","l","e","s">>, NoOptions)>>)])

extras_yml ==
    File(<<"E","x","t","r","a","s">>, <<"t","o","o","l">>, <<"y","m","l">>, "mapping",
         <<Record(FALSE, <<>>, FALSE, <<>>, <<>>, NoOptions)>>)

globs_yml ==
    File(<<"W","i","l","d","C","a","r","d","s">>, <<"g","l","o","b","s">>, <<"y","m","l">>, "sequence",
         <<Record(TRUE, <<"g","l","o","b">>, FALSE, <<>>, <<>>, NoOptions),
           NonMapping,
           Record(FALSE, <<>>, TRUE, <<"M","i","s","c">>, <<>>, NoOptions)>>)

deep_yml ==
    [File(<<"W","i","l","d","C","a","r","d","s">>, <<"d","e","e","p">>, <<"y","m","l">>, "mapping",
          <<Record(TRUE, <<"d","e","e","p">>, FALSE, <<>>, <<>>, NoOptions)>>)
     EXCEPT !.sub = <<"e","x","t","r","a">>]

top_yaml ==
    File(<<>>, <<"t","o","p">>, <<"y","a","m","l">>, "mapping",
         <<Record(FALSE, <<>>, FALSE, <<>>, <<>>, NoOptions)>>)

scalar_yml == File(<<"P","r","o","c","e","s","s","_","M","a","n","a","g","e","m","e","n","t">>, <<"s","c","a","l","a","r">>, <<"y","m","l">>, "scalar", <<>>)

empty_yml == File(<<"P","r","o","c","e","s","s","_","M","a","n","a","g","e","m","e","n","t">>, <<"e","m","p","t","y">>, <<"y","m","l">>, "empty", <<>>)

broken_yml == File(<<"P","r","o","c","e","s","s","_","M","a","n","a","g","e","m","e","n","t">>, <<"b","r","o","k","e","n">>, <<"y","m","l">>, "unparsable", <<>>)

locked_yml == File(<<"P","r","o","c","e","s","s","_","M","a","n","a","g","e","m","e","n","t">>, <<"l","o","c","k","e","d">>, <<"y","m","l">>, "unreadable", <<>>)

ssh_yaml ==
    File(<<"N","e","t","w","o","r","k","i","n","g","_","T","o","o","l","s">>, <<"s","s","h">>, <<"y","a","m","l">>, "mapping",
         <<Record(TRUE, <<"s","s","h">>, FALSE, <<>>, <<"r","e","m","o","t","e"," ","s","h","e","l","l">>, NoOptions)>>)

tar_yml ==
    File(<<"A","r","c","h","i","v","e","_","C","o","m","p","r","e","s","s","i","o","n","_","M","g","m","t">>, <<"t","a","r">>, <<"y","m","l">>, "mapping",
         <<Record(TRUE, <<"t","a","r">>, FALSE, <<>>, <<"a","r","c","h","i","v","e"," ","f","i","l","e","s">>, NoOptions)>>)

\* the files of the loader trees
LoaderPool ==
    ShapeFiles \o <<extras_yml, globs_yml, deep_yml, top_yaml,
                    scalar_yml, empty_yml, broken_yml, locked_yml,
                    ping_yml, ssh_yaml, tar_yml>>

\* the trees of the loader specification: at most MaxLoaderFiles files of the
\* pool, no two with the same path, in every order the file system may list them
LoaderTrees ==
    LET DistinctPaths(I) ==
            \A i, j \in I : i # j => PathOf(LoaderPool[i]) # PathOf(LoaderPool[j])
        Chosen == {J \in SUBSET (1..Len(LoaderPool)) :
                      Cardinality(J) <= MaxLoaderFiles /\ DistinctPaths(J)}
        Listings(I) == {p \in [1..Cardinality(I) -> I] :
                           \A a, b \in 1..Cardinality(I) : a # b => p[a] # p[b]}
    IN  UNION {{AsList([k \in 1..Cardinality(I) |-> LoaderPool[p[k]]]) : p \in Listings(I)} :
                  I \in Chosen}

\* the texts typed into the search box (search specification): every name of a
\* document, and texts that match by category, by option, by alias or not at all
Queries ==
    {<<>>, <<" "," "," ">>, <<" ","G","R","E","P"," ">>, <<"g","r","e","p">>, <<"e","g","r","e","p">>, <<"G","R","E","P">>, <<"l","s">>, <<"l","s"," ">>, <<"p","i","n","g">>,
     <<"g","l","o","b">>, <<"s","t","a","r">>, <<"w","i","l","d">>, <<"e","x","t","e","n","d","e","d">>, <<"i","n","v","e","r","t"," ","e","x","t","e","n","d","e","d">>, <<"t","e","x","t"," ","p","r","o","c","e","s","s","i","n","g">>,
     <<"s","e","a","r","c","h"," ","t","o","o","l","s">>, <<"n","e","t","w","o","r","k","i","n","g">>, <<"n","e","t","w","o","r","k","i","n","g","-","t","o","o","l","s">>, <<"c","o","u","n","t">>, <<"l","o","n","g">>,
     <<"_">>, <<" ","-"," ">>, <<"v","e","r","b","o","s","e">>}

\* the texts typed into the search box (application specification)
AppQueries == {<<>>, <<" ","G","R","E","P"," ">>, <<"g","l","o","b">>, <<"w","i","l","d">>, <<"n","e","t","w","o","r","k","i","n","g">>, <<"e","x","t","e","n","d","e","d">>}

-----------------------------------------------------------------------------
(* The application: handlers of CommandApp *)

\* variant: the newly loaded documents are added to the catalog that was there
load_data_appending ==
    /\ docs' = docs \o load_all_commands(fs)
    /\ filtered_docs' = IF docs' # <<>>
                        THEN _apply_filters_and_render(docs', search_input)
                        ELSE <<>>
    /\ replaced' = (docs # <<>> /\ docs' # docs)

\* variant: the catalog is replaced and the displayed result is left as it was
load_data_keeping_result ==
    /\ docs' = load_all_commands(fs)
    /\ filtered_docs' = filtered_docs
    /\ replaced' = (docs # <<>> /\ docs' # docs)

\* lines 200-212, load_data: replace the catalog, then render it unless it is empty
load_data ==
    /\ docs' = load_all_commands(fs)
    /\ filtered_docs' = IF docs' # <<>>
                        THEN _apply_filters_and_render(docs', search_input)
                        ELSE <<>>
    /\ replaced' = (docs # <<>> /\ docs' # docs)

\* the texts of the editor of the New Command dialog, as yaml.safe_load reads them
Unparsable == [kind |-> "unparsable",
               doc |-> Candidate(NoVal, NoVal, NoVal, NoVal, NoVal, NoVal, NoVal, NoOptions, "absent")]
NonMappingText == [kind |-> "nonmapping", doc |-> Unparsable.doc]
Mapping(doc) == [kind |-> "mapping", doc |-> doc]

\* new_command.py, lines 68-78: the default template
Template ==
    Mapping(Candidate(NullVal, NoVal, NoVal, NullVal, StrVal(<<"\n">>), NullVal, NoVal,
                      ListOptions(<<>>), "list"))

tar_text ==
    Mapping(Candidate(StrVal(<<"t","a","r">>), NoVal, NoVal, StrVal(<<"T","e","x","t","_","P","r","o","c","e","s","s","i","n","g">>),
                      StrVal(<<"a","r","c","h","i","v","e"," ","f","i","l","e","s">>), StrVal(<<"t","a","r"," ","-","c","f">>), NoVal, NoOptions, "absent"))

\* the same command without a description
tar_short_text ==
    Mapping(Candidate(StrVal(<<"t","a","r">>), NoVal, NoVal, StrVal(<<"T","e","x","t","_","P","r","o","c","e","s","s","i","n","g">>),
                      NoVal, StrVal(<<"t","a","r"," ","-","c","f">>), NoVal, NoOptions, "absent"))

\* a name with a blank and a punctuation mark, syntax in place of usage
my_cmd_text ==
    Mapping(Candidate(StrVal(<<"m","y"," ","c","m","d","!">>), NoVal, NoVal, StrVal(<<"T","e","x","t","_","P","r","o","c","e","s","s","i","n","g">>),
                      StrVal(<<"m","i","n","e">>), NoVal, StrVal(<<"m","y"," ","c","m","d">>), ListOptions(<<StrOption(<<"-","q">>)>>), "str"))

\* the name given through the key command
zip_text ==
    Mapping(Candidate(NoVal, StrVal(<<"z","i","p">>), NoVal, StrVal(<<"T","e","x","t","_","P","r","o","c","e","s","s","i","n","g">>),
                      StrVal(<<"p","a","c","k"," ","f","i","l","e","s">>), StrVal(<<"z","i","p"," ","a"," ","b">>), NoVal, NoOptions, "absent"))

\* the name given through the key title, the key name left null as in the template
gzip_text ==
    Mapping(Candidate(NullVal, NoVal, StrVal(<<"g","z","i","p">>), StrVal(<<"S","y","s","t","e","m","_","A","d","m","i","n","i","s","t","r","a","t","i","o","n">>),
                      StrVal(<<"c","o","m","p","r","e","s","s">>), StrVal(<<"g","z","i","p"," ","f">>), NoVal, NoOptions, "absent"))

\* a category outside the allow-lists
misc_text ==
    Mapping(Candidate(StrVal(<<"t","a","r">>), NoVal, NoVal, StrVal(<<"M","i","s","c">>),
                      StrVal(<<"a","r","c","h","i","v","e"," ","f","i","l","e","s">>), StrVal(<<"t","a","r"," ","-","c","f">>), NoVal, NoOptions, "absent"))

DialogTexts ==
    {Unparsable, NonMappingText, Template, tar_text, tar_short_text, my_cmd_text, zip_text,
     gzip_text, misc_text}

\* files that are in the tree before the dialog opens
old_tar_yml ==
    File(<<"T","e","x","t","_","P","r","o","c","e","s","s","i","n","g">>, <<"t","a","r">>, <<"y","m","l">>, "mapping",
         <<Record(TRUE, <<"t","a","r">>, FALSE, <<>>, <<"t","a","p","e"," ","a","r","c","h","i","v","e","r">>, NoOptions)>>)

old_tar_2_yml ==
    File(<<"T","e","x","t","_","P","r","o","c","e","s","s","i","n","g">>, <<"t","a","r","-","2">>, <<"y","m","l">>, "mapping",
         <<Record(TRUE, <<"t","a","r"," ","t","w","o">>, FALSE, <<>>, <<"s","e","c","o","n","d"," ","t","a","p","e"," ","a","r","c","h","i","v","e","r">>, NoOptions)>>)

DialogTrees == {<<grep_yml>>, <<old_tar_yml>>, <<old_tar_yml, old_tar_2_yml>>}

\* the candidates of the validation specification: every combination of a name,
\* a category, a description and a usage or syntax that is absent, empty or
\* given, and candidates with a blank name, a name through command or title,
\* and options or examples of a wrong type
ValidationTexts ==
    {Mapping(Candidate(n, NoVal, NoVal, c, d, u[1], u[2], NoOptions, "absent")) :
        n \in {NoVal, StrVal(<<>>), StrVal(<<"t","a","r">>)},
        c \in {NoVal, StrVal(<<"M","i","s","c">>), StrVal(<<"T","e","x","t","_","P","r","o","c","e","s","s","i","n","g">>), StrVal(<<"S","y","s","t","e","m","_","A","d","m","i","n","i","s","t","r","a","t","i","o","n">>),
               StrVal(<<"N","e","t","w","o","r","k","i","n","g","_","T","o","o","l","s">>)},
        d \in {NoVal, StrVal(<<"a","r","c","h","i","v","e"," ","f","i","l","e","s">>)},
        u \in {<<NoVal, NoVal>>, <<StrVal(<<"t","a","r"," ","-","c","f">>), NoVal>>, <<NoVal, StrVal(<<"t","a","r"," ","-","c","f">>)>>}}
    \cup {my_cmd_text, zip_text, gzip_text, Template,
          Mapping(Candidate(StrVal(<<" "," ">>), StrVal(<<"z","i","p">>), NoVal, StrVal(<<"S","y","s","t","e","m","_","A","d","m","i","n","i","s","t","r","a","t","i","o","n">>),
                            StrVal(<<"p","a","c","k">>), StrVal(<<"z","i","p"," ","a"," ","b">>), NoVal, NoOptions, "absent")),
          Mapping(Candidate(StrVal(<<"t","a","r">>), NoVal, NoVal, StrVal(<<"S","y","s","t","e","m","_","A","d","m","i","n","i","s","t","r","a","t","i","o","n">>),
                            StrVal(<<"a","r","c","h","i","v","e"," ","f","i","l","e","s">>), StrVal(<<"t","a","r"," ","-","c","f">>), NoVal,
                            ScalarOptions(<<"-","v">>), "absent")),
          Mapping(Candidate(StrVal(<<"t","a","r">>), NoVal, NoVal, StrVal(<<"S","y","s","t","e","m","_","A","d","m","i","n","i","s","t","r","a","t","i","o","n">>),
                            StrVal(<<"a","r","c","h","i","v","e"," ","f","i","l","e","s">>), StrVal(<<"t","a","r"," ","-","c","f">>), NoVal,
                            NoOptions, "other"))}

\* the dialog before it is opened
NoDialog == [open |-> FALSE, editor |-> Unparsable, msg |-> "", did |-> <<>>]

\* no search seen yet: as the search of the empty catalog for the empty query
NoSearch == [docs |-> <<>>, query |-> <<>>, result |-> <<>>, between |-> FALSE]

\* app.py, lines 263-266: the widgets of the focus order that always exist
focus_order == <<"search_input", "results">>

\* lines 269-275 (and 322-327): the focusable widgets of the details panel
detail_widgets ==
    <<"command_name_focus", "category_focus", "description_focus", "options_focus",
      "examples_focus">>

\* compose, lines 152-174: the screen as composed, nothing focused, the details
\* panel holding the initial message only
NoScreen == [focused |-> "none", details |-> <<>>]

\* lines 294-299: the index of the focused widget in order, -1 when it is not there
current_index(order, current_id) ==
    IF \E i \in 1..Len(order) : order[i] = current_id
    THEN (CHOOSE i \in 1..Len(order) : order[i] = current_id) - 1
    ELSE -1

\* lines 277-311: the widget action_focus_next focuses; the order is made of
\* the detail widgets that exist
FocusAfterNext(scr) ==
    LET full_focus_order == focus_order \o scr.details
        next_index == (current_index(full_focus_order, scr.focused) + 1) % Len(full_focus_order)
    IN  full_focus_order[next_index + 1]

\* lines 320-351: the widget action_focus_previous focuses; the order names all
\* detail widgets, and a widget that does not exist is replaced by the search box
FocusAfterPrevious(scr) ==
    LET order == focus_order \o detail_widgets
        prev_index == (current_index(order, scr.focused) - 1 + Len(order)) % Len(order)
        prev_widget_id == order[prev_index + 1]
        exists == \/ \E i \in 1..Len(focus_order) : focus_order[i] = prev_widget_id
                  \/ \E i \in 1..Len(scr.details) : scr.details[i] = prev_widget_id
    IN  IF exists THEN prev_widget_id ELSE "search_input"

\* the state after CommandApp.__init__, over the tree the application finds
InitApp(trees) ==
    /\ fs \in trees
    /\ docs = <<>>
    /\ filtered_docs = <<>>
    /\ search_input = <<>>
    /\ search_performed = FALSE
    /\ mounted = FALSE
    /\ replaced = FALSE
    /\ last = "init"
    /\ STRICT_CATEGORIES = FALSE
    /\ commands = <<>>
    /\ loaded = "no"
    /\ noted = NoSearch
    /\ dialog = NoDialog
    /\ screen = NoScreen

on_mount ==
    /\ ~mounted
    /\ mounted' = TRUE
    /\ load_data
    /\ last' = "mount"
    /\ screen' = [screen EXCEPT !.focused = "search_input"]
    /\ UNCHANGED <<fs, search_input, search_performed, STRICT_CATEGORIES, commands, loaded, noted, dialog>>

\* the user edits the text of the search box
Type(texts) ==
    /\ mounted
    /\ \E value \in texts : value # search_input /\ search_input' = value
    /\ last' = "type"
    /\ UNCHANGED <<fs, docs, filtered_docs, search_performed, mounted, replaced,
                   STRICT_CATEGORIES, commands, loaded, noted, dialog, screen>>

TypeText == Type(AppQueries)

TypeAnyText == Type(Queries)

\* variant: the search runs over the catalog and the files on disk together
on_input_submitted_mixed ==
    /\ mounted
    /\ search_performed' = TRUE
    /\ filtered_docs' = _apply_filters_and_render(docs \o load_all_commands(fs), search_input)
    /\ last' = "submit"
    /\ UNCHANGED <<fs, docs, search_input, mounted, replaced,
                   STRICT_CATEGORIES, commands, loaded, noted, dialog, screen>>

\* variant: the search runs over the result displayed before it
on_input_submitted_refining ==
    /\ mounted
    /\ search_performed' = TRUE
    /\ filtered_docs' = _apply_filters_and_render(filtered_docs, search_input)
    /\ last' = "submit"
    /\ UNCHANGED <<fs, docs, search_input, mounted, replaced,
                   STRICT_CATEGORIES, commands, loaded, noted, dialog, screen>>

\* lines 215-219: Enter in the search box
on_input_submitted ==
    /\ mounted
    /\ search_performed' = TRUE
    /\ filtered_docs' = _apply_filters_and_render(docs, search_input)
    /\ last' = "submit"
    /\ UNCHANGED <<fs, docs, search_input, mounted, replaced,
                   STRICT_CATEGORIES, commands, loaded, noted, dialog, screen>>

action_reload_data ==
    /\ mounted
    /\ load_data
    /\ last' = "reload"
    /\ UNCHANGED <<fs, search_input, search_performed, mounted,
                   STRICT_CATEGORIES, commands, loaded, noted, dialog, screen>>

\* the environment replaces the tree under data/commands
TreeChanged ==
    /\ \E tree \in AppTrees : tree # fs /\ fs' = tree
    /\ UNCHANGED <<docs, filtered_docs, search_input, search_performed, mounted, replaced,
                   last, STRICT_CATEGORIES, commands, loaded, noted, dialog, screen>>

\* app.py, lines 655-657: reload_from_disk is load_data, over the tree as it is
\* after the save
reload_from_disk ==
    /\ docs' = load_all_commands(fs')
    /\ filtered_docs' = IF docs' # <<>>
                        THEN _apply_filters_and_render(docs', search_input)
                        ELSE <<>>
    /\ replaced' = (docs # <<>> /\ docs' # docs)

\* the New Command dialog is pushed and mounted with the template (lines 53-56)
push_new_command ==
    /\ mounted
    /\ ~dialog.open
    /\ dialog' = [open |-> TRUE, editor |-> Template, msg |-> "", did |-> <<>>]
    /\ UNCHANGED <<fs, docs, filtered_docs, search_input, search_performed, mounted, replaced,
                   last, STRICT_CATEGORIES, commands, loaded, noted, screen>>

\* the user replaces the text of the editor
EditText(texts) ==
    /\ dialog.open
    /\ \E text \in texts :
           /\ text # dialog.editor
           /\ dialog' = [dialog EXCEPT !.editor = text, !.did = <<>>]
    /\ UNCHANGED <<fs, docs, filtered_docs, search_input, search_performed, mounted, replaced,
                   last, STRICT_CATEGORIES, commands, loaded, noted, screen>>

EditDialogText == EditText(DialogTexts)

\* lines 95-97: Cancel
nc_cancel ==
    /\ dialog.open
    /\ dialog' = [dialog EXCEPT !.open = FALSE, !.did = <<"dismiss">>]
    /\ UNCHANGED <<fs, docs, filtered_docs, search_input, search_performed, mounted, replaced,
                   last, STRICT_CATEGORIES, commands, loaded, noted, screen>>

\* lines 99-108: the text is parsed; the message when it is no mapping, else ""
ParseMessage ==
    IF dialog.editor.kind = "unparsable" THEN "YAML parse error"
    ELSE IF dialog.editor.kind = "nonmapping" THEN "Top-level must be a mapping"
    ELSE ""

\* lines 99-115: Validate, with the validation of the module given by issues
Validate(issues, step) ==
    /\ dialog.open
    /\ dialog' = IF ParseMessage # ""
                 THEN [dialog EXCEPT !.msg = ParseMessage, !.did = <<"parse">>]
                 ELSE [dialog EXCEPT !.msg = IF issues # <<>> THEN "Validation issues" ELSE "Valid",
                                     !.did = <<"parse", step>>]
    /\ UNCHANGED <<fs, docs, filtered_docs, search_input, search_performed, mounted, replaced,
                   last, STRICT_CATEGORIES, commands, loaded, noted, screen>>

\* app/screens/new_command.py, lines 110-115
nc_validate == Validate(_validate_doc_minimal(dialog.editor.doc), "validate")

\* tui/app.py, lines 494-499
tui_nc_validate == Validate(tui_validate_doc_minimal(dialog.editor.doc), "tui validate")

\* variant: Save writes the file without validating the candidate
nc_save_unvalidated ==
    /\ dialog.open
    /\ dialog.editor.kind = "mapping"
    /\ dialog.editor.doc.category.t = "str"
    /\ Len(fs) < MaxDialogFiles
    /\ fs' = _save_new_command(fs, dialog.editor.doc)
    /\ reload_from_disk
    /\ last' = "reload"
    /\ dialog' = [dialog EXCEPT !.open = FALSE, !.msg = "Saved",
                                !.did = <<"parse", "write", "reload", "dismiss">>]
    /\ UNCHANGED <<search_input, search_performed, mounted, STRICT_CATEGORIES, commands,
                   loaded, noted, screen>>

\* lines 99-108 and 117-129: Save.  write_text succeeds, or it fails and leaves
\* either no file or an empty one.
nc_save ==
    /\ dialog.open
    /\ IF ParseMessage # ""
       THEN /\ dialog' = [dialog EXCEPT !.msg = ParseMessage, !.did = <<"parse">>]
            /\ UNCHANGED <<fs, docs, filtered_docs, replaced, last>>
       ELSE IF _validate_doc_minimal(dialog.editor.doc) # <<>>
       THEN /\ dialog' = [dialog EXCEPT !.msg = "Fix before save", !.did = <<"parse", "validate">>]
            /\ UNCHANGED <<fs, docs, filtered_docs, replaced, last>>
       ELSE /\ Len(fs) < MaxDialogFiles
            /\ \/ /\ fs' = _save_new_command(fs, dialog.editor.doc)
                  /\ reload_from_disk
                  /\ last' = "reload"
                  /\ dialog' = [dialog EXCEPT !.open = FALSE, !.msg = "Saved",
                                              !.did = <<"parse", "validate", "write", "reload",
                                                        "dismiss">>]
               \/ /\ fs' \in {fs, fs \o <<File(dialog.editor.doc.category.s,
                                               TargetStem(fs, dialog.editor.doc), <<"y","m","l">>,
                                               "empty", <<>>)>>}
                  /\ dialog' = [dialog EXCEPT !.msg = "Failed to write file",
                                              !.did = <<"parse", "validate", "write">>]
                  /\ UNCHANGED <<docs, filtered_docs, replaced, last>>
    /\ UNCHANGED <<search_input, search_performed, mounted, STRICT_CATEGORIES, commands,
                   loaded, noted, screen>>

\* lines 260-316: Tab
action_focus_next ==
    /\ mounted
    /\ screen' = [screen EXCEPT !.focused = FocusAfterNext(screen)]
    /\ UNCHANGED <<fs, docs, filtered_docs, search_input, search_performed, mounted, replaced,
                   last, STRICT_CATEGORIES, commands, loaded, noted, dialog>>

\* lines 318-351: Shift+Tab
action_focus_previous ==
    /\ mounted
    /\ screen' = [screen EXCEPT !.focused = FocusAfterPrevious(screen)]
    /\ UNCHANGED <<fs, docs, filtered_docs, search_input, search_performed, mounted, replaced,
                   last, STRICT_CATEGORIES, commands, loaded, noted, dialog>>

\* lines 221-225 and 525-576: a row of the table is highlighted and
\* _update_details replaces the children of the details panel by the five
\* boxes; a detail widget that had the focus is removed, and the focus is then
\* on no widget or on one of the widgets that stay
on_data_table_row_highlighted ==
    /\ mounted
    /\ filtered_docs # <<>>
    /\ \E f \in {"none", "search_input", "results", screen.focused} :
           /\ f = screen.focused \/ \E i \in 1..Len(screen.details) : screen.details[i] = screen.focused
           /\ screen' = [focused |-> f, details |-> detail_widgets]
    /\ UNCHANGED <<fs, docs, filtered_docs, search_input, search_performed, mounted, replaced,
                   last, STRICT_CATEGORIES, commands, loaded, noted, dialog>>

\* the user clicks a focusable widget of the screen (FocusableStatic, lines 31-39)
focus_widget ==
    /\ mounted
    /\ \E i \in 1..Len(focus_order \o screen.details) :
           /\ (focus_order \o screen.details)[i] # screen.focused
           /\ screen' = [screen EXCEPT !.focused = (focus_order \o screen.details)[i]]
    /\ UNCHANGED <<fs, docs, filtered_docs, search_input, search_performed, mounted, replaced,
                   last, STRICT_CATEGORIES, commands, loaded, noted, dialog>>

Init == InitApp(AppTrees)

Next ==
    \/ on_mount
    \/ TypeText
    \/ on_input_submitted
    \/ action_reload_data
    \/ TreeChanged

Spec == Init /\ [][Next]_vars

\* the observer notes the search just performed, or that it is a search for
\* another query than the noted one
NoteSearch ==
    /\ last = "submit"
    /\ \/ noted' = [docs |-> docs, query |-> search_input, result |-> filtered_docs,
                    between |-> FALSE]
       \/ /\ noted.docs = docs
          /\ noted.query # search_input
          /\ noted' = [noted EXCEPT !.between = TRUE]
    /\ noted' # noted
    /\ UNCHANGED <<fs, docs, filtered_docs, search_input, search_performed, mounted, replaced,
                   last, STRICT_CATEGORIES, commands, loaded, dialog, screen>>

\* the application over a fixed tree, with an observer of its searches
PurityNext ==
    \/ on_mount
    \/ TypeText
    \/ on_input_submitted
    \/ action_reload_data
    \/ NoteSearch

PuritySpec == Init /\ [][PurityNext]_vars

\* the main screen with its focus
FocusInit == InitApp(AppTrees)

FocusNext ==
    \/ on_mount
    \/ TypeText
    \/ on_input_submitted
    \/ on_data_table_row_highlighted
    \/ focus_widget
    \/ action_focus_next
    \/ action_focus_previous

FocusSpec == FocusInit /\ [][FocusNext]_vars

\* the application with the New Command dialog
DialogInit == InitApp(DialogTrees)

DialogNext ==
    \/ on_mount
    \/ push_new_command
    \/ EditDialogText
    \/ nc_cancel
    \/ nc_validate
    \/ nc_save

DialogSpec == DialogInit /\ [][DialogNext]_vars

\* the Validate button of both copies of the dialog over every candidate
ValidationInit ==
    /\ fs = <<grep_yml>>
    /\ docs = <<>>
    /\ filtered_docs = <<>>
    /\ search_input = <<>>
    /\ search_performed = FALSE
    /\ mounted = FALSE
    /\ replaced = FALSE
    /\ last = "init"
    /\ STRICT_CATEGORIES \in BOOLEAN
    /\ commands = <<>>
    /\ loaded = "no"
    /\ noted = NoSearch
    /\ \E text \in ValidationTexts :
           dialog = [open |-> TRUE, editor |-> text, msg |-> "", did |-> <<>>]
    /\ screen = NoScreen

ValidationNext ==
    \/ nc_validate
    \/ tui_nc_validate
    \/ nc_cancel

ValidationSpec == ValidationInit /\ [][ValidationNext]_vars

\* the search over a fixed tree: every small tree, every text
SearchInit == InitApp(SearchTrees)

SearchNext ==
    \/ on_mount
    \/ TypeAnyText
    \/ on_input_submitted
    \/ action_reload_data

SearchSpec == SearchInit /\ [][SearchNext]_vars

\* the browse ordering over every small catalog
GrouperInit == InitApp(GrouperTrees)

GrouperNext ==
    \/ on_mount
    \/ TypeText
    \/ on_input_submitted
    \/ action_reload_data

GrouperSpec == GrouperInit /\ [][GrouperNext]_vars

-----------------------------------------------------------------------------
(* The loaders over every shape of record *)

\* lines 181-182 of tui/app.py: init_command_library returns load_all_commands()
init_command_library ==
    /\ loaded = "no"
    /\ IF tui_load_all_commands(fs).raised
       THEN loaded' = "raised" /\ commands' = commands
       ELSE loaded' = "yes" /\ commands' = tui_load_all_commands(fs).commands
    /\ UNCHANGED <<fs, docs, filtered_docs, search_input, search_performed, mounted,
                   replaced, last, STRICT_CATEGORIES, noted, dialog, screen>>

LoaderInit ==
    /\ fs \in LoaderTrees
    /\ docs = <<>>
    /\ filtered_docs = <<>>
    /\ search_input = <<>>
    /\ search_performed = FALSE
    /\ mounted = FALSE
    /\ replaced = FALSE
    /\ last = "init"
    /\ STRICT_CATEGORIES \in BOOLEAN
    /\ commands = <<>>
    /\ loaded = "no"
    /\ noted = NoSearch
    /\ dialog = NoDialog
    /\ screen = NoScreen

LoaderNext ==
    \/ on_mount
    \/ init_command_library

LoaderSpec == LoaderInit /\ [][LoaderNext]_vars

-----------------------------------------------------------------------------
(* Vocabulary of the properties *)

\* the displayed result was computed by the last step, from the catalog and the
\* text of the search box as they are now
Rendered == last \in {"mount", "submit", "reload"}

\* the query after trimming and lower-casing
NormalizedQuery == Lower(Strip(search_input))

\* the document's lower-cased name equals the normalized query
NameIsQuery(doc) == Lower(doc.name) = NormalizedQuery

SomeNameIsQuery == \E i \in 1..Len(docs) : NameIsQuery(docs[i])

Contains(s, x) == \E k \in 1..Len(s) : s[k] = x

\* the catalogs that are the complete build of one tree
AppCatalogs == {load_all_commands(tree) : tree \in AppTrees}

\* the files of the tree that hold one mapping and lie in a category directory
RecordFiles ==
    {f \in {fs[k] : k \in 1..Len(fs)} : f.kind = "mapping" /\ f.dir # <<>>}

-----------------------------------------------------------------------------
(* Search and browse (SearchSpec) *)

DashesToBlanks(s) == ReplaceChar(ReplaceChar(s, "_", " "), "-", " ")

\* a whitespace-separated term of the query occurs in the lower-cased name, in
\* the lower-cased category, in the category with "_" and "-" replaced by blanks
\* or in the options search text, or the networking alias applies
TermOccurs(doc) ==
    LET terms == Split(NormalizedQuery)
    IN  \/ \E t \in 1..Len(terms) :
               \/ IsSubstring(terms[t], Lower(doc.name))
               \/ IsSubstring(terms[t], Lower(doc.category))
               \/ IsSubstring(terms[t], DashesToBlanks(doc.category))
               \/ IsSubstring(terms[t], _extract_options_text(doc))
        \/ /\ IsSubstring(<<"n","e","t","w","o","r","k","i","n","g">>, NormalizedQuery)
           /\ IsSubstring(<<"n","e","t","w","o","r","k">>, Lower(doc.category))

PartialMatches ==
    LET Matches(doc) == PartialMatch(doc, NormalizedQuery)
    IN  SelectSeq(docs, Matches)

\* C4 (cap enforcement): when the normalized query is not empty and no name
\* equals it, the result is the first min(50, n) of the n partially matching
\* documents, in catalog order.
C4_CapEnforcement ==
    (Rendered /\ NormalizedQuery # <<>> /\ ~SomeNameIsQuery)
        => filtered_docs =
              SubSeq(PartialMatches, 1,
                     IF Len(PartialMatches) < 50 THEN Len(PartialMatches) ELSE 50)

\* C4 happens: more than 50 documents match, the first document of the catalog
\* does not, and the result holds 50 documents
C4_Witness ==
    /\ last = "submit"
    /\ NormalizedQuery # <<>>
    /\ ~SomeNameIsQuery
    /\ Len(PartialMatches) > 50
    /\ ~PartialMatch(docs[1], NormalizedQuery)
    /\ Len(filtered_docs) = 50

\* C5 (browse mode): when the query is empty after trimming, the result holds
\* every document of the catalog exactly once, whatever their number, and the
\* documents of one category stand next to each other.
C5_BrowseMode ==
    (Rendered /\ Strip(search_input) = <<>>)
        => /\ Len(filtered_docs) = Len(docs)
           /\ \A i \in 1..Len(docs) : Contains(filtered_docs, docs[i])
           /\ \A a, b \in 1..Len(filtered_docs) :
                  (a < b /\ filtered_docs[a].category = filtered_docs[b].category)
                      => filtered_docs[a + 1].category = filtered_docs[a].category

\* C5 happens: a query of blanks over a catalog of more than 50 documents, and
\* the result is the whole catalog in another order
C5_Witness ==
    /\ last = "submit"
    /\ search_input # <<>>
    /\ Strip(search_input) = <<>>
    /\ Len(docs) > 50
    /\ Len(filtered_docs) = Len(docs)
    /\ filtered_docs # docs

-----------------------------------------------------------------------------
(* Search and reload (Spec) *)

\* C6 (a search racing a reload sees one snapshot): after a search, whether the
\* reload came before it or is still to come, the catalog is the complete build
\* of one tree and the result is the result of the search over that catalog.
C6_SearchSeesOneSnapshot ==
    last = "submit"
        => /\ docs \in AppCatalogs
           /\ filtered_docs = _apply_filters_and_render(docs, search_input)

\* C6 happens: a reload has replaced the catalog, the tree has changed again, and
\* the search ran before the next reload: its result is not empty and comes from
\* the catalog in memory, which is not what the tree now holds
C6_Witness ==
    /\ last = "submit"
    /\ replaced
    /\ docs # load_all_commands(fs)
    /\ load_all_commands(fs) # <<>>
    /\ filtered_docs # <<>>

\* C7 (reload replaces the catalog as a whole): every step that changes the
\* catalog makes it the complete build of the tree as it is, and so the catalog
\* is at every point the complete build of one tree.
C7_ReloadReplacesWhole ==
    [][/\ docs' = docs \/ docs' = load_all_commands(fs)
       /\ docs' \in AppCatalogs]_vars

\* C7 happens: a reload has replaced a non-empty catalog by a different non-empty
\* one
C7_Witness ==
    /\ last = "reload"
    /\ replaced
    /\ docs # <<>>

-----------------------------------------------------------------------------
(* The loaders (LoaderSpec) *)

\* C8 (catalog invariant): every document of the catalog, whichever loader built
\* it, has a non-empty name and a non-empty category.
C8_CatalogInvariant ==
    /\ \A i \in 1..Len(docs) : docs[i].name # <<>> /\ docs[i].category # <<>>
    /\ \A i \in 1..Len(commands) : commands[i].name # <<>> /\ commands[i].category # <<>>

\* the record has no name, or an empty one
Nameless(record) == ~record.hasName \/ record.name = <<>>

\* C9 (name fallback): a record without a name, or with an empty one, becomes a
\* document named after the stem of its file, in either loader.
C9_NameFallback ==
    \A f \in RecordFiles :
        Nameless(f.items[1])
            => /\ (mounted /\ f.sub = <<>>)
                      => \E i \in 1..Len(docs) :
                             docs[i]._source_file = PathOf(f) /\ docs[i].name = f.stem
               /\ (loaded = "yes" /\ (f.dir \in ALLOWED_CATEGORIES \/ ~STRICT_CATEGORIES))
                      => \E i \in 1..Len(commands) :
                             commands[i]._source_path = PathOf(f)
                                 /\ commands[i].name = f.stem

\* the category the rule gives the record of file f: its own when not empty, else
\* the name of the category directory
ResolvedCategory(f) ==
    IF f.items[1].hasCategory /\ f.items[1].category # <<>>
    THEN f.items[1].category
    ELSE f.dir

\* C10 (category resolution): the category of a document is the explicit one of
\* its record when that is not empty, else the name of its category directory;
\* and in strict mode a category outside the allow-list becomes "uncategorized".
C10_CategoryResolution ==
    \A f \in RecordFiles :
        /\ mounted
               => \A i \in 1..Len(docs) :
                      docs[i]._source_file = PathOf(f)
                          => docs[i].category = ResolvedCategory(f)
        /\ loaded = "yes"
               => \A i \in 1..Len(commands) :
                      commands[i]._source_path = PathOf(f)
                          => commands[i].category =
                                 IF STRICT_CATEGORIES
                                        /\ ResolvedCategory(f) \notin ALLOWED_CATEGORIES
                                 THEN <<"u","n","c","a","t","e","g","o","r","i","z","e","d">>
                                 ELSE ResolvedCategory(f)

\* the path a comes no later than the path b in the order by category directory
\* and then by file name
InBuildOrder(a, b) ==
    \/ StrLess(a.dir, b.dir)
    \/ /\ a.dir = b.dir
       /\ ~StrLess(b.stem \o <<".">> \o b.ext, a.stem \o <<".">> \o a.ext)

\* C11 (idempotent, ordered build): a second build over the unchanged tree gives
\* the sequence the first one gave, and the documents of files in category
\* directories stand in the order of category directory and then file name,
\* however the file system lists them; for either loader.
C11_OrderedBuild ==
    /\ mounted
           => /\ docs = load_all_commands(fs)
              /\ \A i, j \in 1..Len(docs) :
                     i < j => InBuildOrder(docs[i]._source_file, docs[j]._source_file)
    /\ loaded = "yes"
           => /\ commands = tui_load_all_commands(fs).commands
              /\ \A i, j \in 1..Len(commands) :
                     (i < j /\ commands[i]._source_path.dir # <<>>
                            /\ commands[j]._source_path.dir # <<>>)
                         => InBuildOrder(commands[i]._source_path, commands[j]._source_path)

\* the files of the tree but for those that cannot be read, do not parse, are
\* empty or hold a scalar
WellFormedFiles ==
    LET IsWellFormed(f) == f.kind \in {"mapping", "sequence"}
    IN  SelectSeq(fs, IsWellFormed)

\* C12 (failure isolation in build): whichever files of the tree are unreadable,
\* unparsable or malformed, no load raises, and each load returns exactly what it
\* returns for the tree without those files.
C12_FailureIsolation ==
    /\ loaded # "raised"
    /\ mounted => docs = load_all_commands(WellFormedFiles)
    /\ loaded = "yes" => commands = tui_load_all_commands(WellFormedFiles).commands

\* the files of the tree
Files == {fs[k] : k \in 1..Len(fs)}

\* the number of mapping elements of a file that holds a sequence
MappingElements(f) == Cardinality({k \in 1..Len(f.items) : f.items[k].isMap})

\* C13 (sequence-shaped files): a file of a category directory whose top level
\* is a sequence gives one document per mapping element, in either loader, and a
\* file whose top level is a scalar gives none.
C13_SequenceFiles ==
    \A f \in Files :
        /\ (f.kind = "sequence" /\ f.dir # <<>> /\ f.sub = <<>> /\ mounted)
               => Cardinality({i \in 1..Len(docs) : docs[i]._source_file = PathOf(f)})
                      = MappingElements(f)
        /\ (f.kind = "sequence" /\ loaded = "yes")
               => Cardinality({i \in 1..Len(commands) :
                                  commands[i]._source_path = PathOf(f)})
                      = MappingElements(f)
        /\ f.kind = "scalar"
               => /\ \A i \in 1..Len(docs) : docs[i]._source_file # PathOf(f)
                  /\ \A i \in 1..Len(commands) : commands[i]._source_path # PathOf(f)

-----------------------------------------------------------------------------
(* What the application presents (Spec) *)

\* what the screen shows of the search: the text of the search box and the rows
\* of the results table (load_data and the search leave the details pane alone)
Presented == <<search_input, _update_results_table(filtered_docs)>>

\* C14 (empty catalog vs. empty result): when the screen shows the empty result
\* of a search with a non-empty query over a non-empty catalog, and a reload then
\* produces an empty catalog, the screen after the reload differs from the
\* screen before it.
C14_EmptyCatalogDistinct ==
    [][(/\ last = "submit" /\ NormalizedQuery # <<>>
        /\ docs # <<>> /\ filtered_docs = <<>>
        /\ last' = "reload" /\ docs' = <<>>)
           => Presented' # Presented]_vars

-----------------------------------------------------------------------------
(* The browse ordering (GrouperSpec) *)

\* the screen shows the browse ordering of the catalog
Browsing == mounted /\ last # "type" /\ NormalizedQuery = <<>>

\* C15 (grouper ordering): in the browse ordering the categories come in
\* case-insensitive sorted order of their names, the Documents of one category
\* come in case-insensitive sorted order of their names, and the Documents of
\* one category are contiguous.
C15_GrouperOrdering ==
    Browsing =>
        \A i, j \in 1..Len(filtered_docs) :
            i < j =>
                LET a == filtered_docs[i]
                    b == filtered_docs[j]
                IN  /\ ~StrLess(Lower(b.category), Lower(a.category))
                    /\ a.category = b.category
                           => /\ ~StrLess(Lower(b.name), Lower(a.name))
                              /\ \A k \in i..j : filtered_docs[k].category = a.category

\* a Document without its provenance (_source_file, _category_dir)
Content(doc) ==
    [name |-> doc.name, category |-> doc.category, description |-> doc.description,
     usage |-> doc.usage, examples |-> doc.examples, options |-> doc.options]

Contents(ds) == AsList([i \in 1..Len(ds) |-> Content(ds[i])])

\* the catalogs a and b hold the same Documents, each as many times
SameDocuments(a, b) ==
    /\ Len(a) = Len(b)
    /\ \A k \in 1..Len(a) :
           Cardinality({i \in 1..Len(a) : Content(a[i]) = Content(a[k])})
               = Cardinality({i \in 1..Len(b) : Content(b[i]) = Content(a[k])})

\* C16 (grouper input-order independence): the browse ordering shown for the
\* catalog is the browse ordering of every catalog that holds the same Documents
\* in a different order, also when two Documents of one category have names that
\* differ only in letter case.
C16_InputOrderIndependence ==
    Browsing =>
        \A tree \in GrouperTrees :
            (/\ SameDocuments(load_all_commands(tree), docs)
             /\ Contents(load_all_commands(tree)) # Contents(docs))
                => Contents(_get_all_commands_by_category(load_all_commands(tree)))
                       = Contents(filtered_docs)

\* C17 (grouper idempotence): the browse ordering of the browse ordering shown
\* for the catalog is that same sequence.
C17_GrouperIdempotence ==
    Browsing => _get_all_commands_by_category(filtered_docs) = filtered_docs

\* the ordering moved a Document, and one category holds two Documents whose
\* names are equal up to letter case
C17_Witness ==
    /\ Browsing
    /\ filtered_docs # docs
    /\ \E i, j \in 1..Len(filtered_docs) :
           /\ i # j
           /\ filtered_docs[i].category = filtered_docs[j].category
           /\ NameLower(filtered_docs[i]) = NameLower(filtered_docs[j])
    /\ \E i, j \in 1..Len(filtered_docs) : filtered_docs[i].category # filtered_docs[j].category

-----------------------------------------------------------------------------
(* The networking alias, purity and blank queries (SearchSpec) *)

\* the lower-cased category of the document holds "network"
NetworkCategory(doc) == IsSubstring(<<"n","e","t","w","o","r","k">>, Lower(doc.category))

\* a term of the query occurs in the lower-cased name, the lower-cased category,
\* that category with "_" as blanks, or the options search text
OrdinaryMatch(doc) ==
    LET terms == Split(NormalizedQuery)
    IN  \E t \in 1..Len(terms) :
            \/ IsSubstring(terms[t], Lower(doc.name))
            \/ IsSubstring(terms[t], Lower(doc.category))
            \/ IsSubstring(terms[t], ReplaceChar(Lower(doc.category), "_", " "))
            \/ IsSubstring(terms[t], _extract_options_text(doc))

AliasQuery ==
    Rendered /\ NormalizedQuery # <<>> /\ ~SomeNameIsQuery
        /\ IsSubstring(<<"n","e","t","w","o","r","k","i","n","g">>, NormalizedQuery)

\* C18 as the specification states it (alias rule): when no name equals the
\* query and the query holds "networking", the result includes every document
\* whose lower-cased category holds "network", and every document of the result
\* whose category does not hold "network" matches a query term ordinarily.
C18_AsStated ==
    AliasQuery
        => /\ \A i \in 1..Len(docs) :
                  NetworkCategory(docs[i]) => Contains(filtered_docs, docs[i])
           /\ \A k \in 1..Len(filtered_docs) :
                  ~NetworkCategory(filtered_docs[k]) => OrdinaryMatch(filtered_docs[k])

\* C18 as amended (alias rule): when no name equals the query and the query holds
\* "networking", the result includes every document whose lower-cased category
\* holds "network" unless the result is full at 50, and every document of the
\* result whose category does not hold "network" matches a query term ordinarily.
C18_AliasRule ==
    AliasQuery
        => /\ Len(filtered_docs) < 50
                  => \A i \in 1..Len(docs) :
                         NetworkCategory(docs[i]) => Contains(filtered_docs, docs[i])
           /\ \A k \in 1..Len(filtered_docs) :
                  ~NetworkCategory(filtered_docs[k]) => OrdinaryMatch(filtered_docs[k])

\* C18 happens: a query that holds "networking" is searched over a catalog with a
\* document of Networking_Tools, which no query term matches ordinarily, and a
\* document of System_Administration; the first is in the result, the second is not
C18_Witness ==
    /\ last = "submit"
    /\ AliasQuery
    /\ \E i, j \in 1..Len(docs) :
           /\ docs[i].category = <<"N","e","t","w","o","r","k","i","n","g","_","T","o","o","l","s">>
           /\ ~OrdinaryMatch(docs[i])
           /\ Contains(filtered_docs, docs[i])
           /\ docs[j].category = <<"S","y","s","t","e","m","_","A","d","m","i","n","i","s","t","r","a","t","i","o","n">>
           /\ ~Contains(filtered_docs, docs[j])

\* C19 (search purity): a search leaves the catalog and every document in it as
\* they were, and when the same query was searched over the same catalog earlier,
\* whatever was searched in between, the search returns the result it returned
\* then.
C19_SearchPurity ==
    [][last' = "submit"
          => /\ docs' = docs
             /\ (noted.docs = docs /\ noted.query = search_input)
                    => filtered_docs' = noted.result]_vars

\* C19 happens: a search over a non-empty catalog was noted, another query was
\* searched after it, and the noted query has been searched again, with a result
\* that is neither empty nor the whole catalog
C19_Witness ==
    /\ last = "submit"
    /\ noted.between
    /\ noted.docs = docs
    /\ noted.query = search_input
    /\ filtered_docs = noted.result
    /\ filtered_docs # <<>>
    /\ Len(filtered_docs) < Len(docs)

\* the text holds nothing but whitespace and the separators "_" and "-"
BlankOrSeparators(s) == \A k \in 1..Len(s) : IsSpace(s[k]) \/ s[k] \in {"_", "-"}

\* C20 (queries that normalize to nothing): for a query of nothing but whitespace
\* and separator characters the result is the full browse ordering of the
\* catalog, as for the empty query, whatever the documents' names, categories and
\* options hold.
C20_BlankQueries ==
    (Rendered /\ BlankOrSeparators(search_input))
        => filtered_docs = _get_all_commands_by_category(docs)

-----------------------------------------------------------------------------
(* Corrupted option entries (SearchSpec) *)

\* the text holds the corrupted-serialization marker
HasMarker(x) == IsSubstring(<<"'","]",":">>, x)

\* an element of an options list in which the flag (one of its spellings) or the
\* explanation holds the marker
CorruptedOption(option) ==
    IF option.kind = "dict"
    THEN \/ (option.flag.t = "str" /\ HasMarker(option.flag.s))
         \/ (option.flag.t = "list" /\ \E i \in 1..Len(option.flag.l) : HasMarker(option.flag.l[i]))
         \/ (option.explains.t = "str" /\ HasMarker(option.explains.s))
    ELSE HasMarker(option.text)

\* an entry of an options mapping in which the key or the value holds the marker
CorruptedEntry(e) == HasMarker(e.k) \/ (e.vIsStr /\ HasMarker(e.v))

\* the document without its corrupted option entries
WithoutCorrupted(doc) ==
    LET CleanOption(option) == ~CorruptedOption(option)
        CleanEntry(e) == ~CorruptedEntry(e)
    IN  [doc EXCEPT !.options =
            [shape |-> @.shape,
             items |-> SelectSeq(@.items, CleanOption),
             entries |-> SelectSeq(@.entries, CleanEntry),
             text |-> IF HasMarker(@.text) THEN <<>> ELSE @.text]]

\* C21 (corrupted option entries are dropped as a whole): the options search text
\* of every document is the options search text of the document without its
\* corrupted entries, and when no name equals the query every document of the
\* result still matches the query without its corrupted entries.
C21_CorruptedEntriesDropped ==
    /\ \A i \in 1..Len(docs) :
           _extract_options_text(docs[i]) = _extract_options_text(WithoutCorrupted(docs[i]))
    /\ (Rendered /\ NormalizedQuery # <<>> /\ ~SomeNameIsQuery)
           => \A k \in 1..Len(filtered_docs) :
                  PartialMatch(WithoutCorrupted(filtered_docs[k]), NormalizedQuery)

\* the options field of the record the document was loaded from
RawOptions(doc) ==
    (CHOOSE f \in {fs[k] : k \in 1..Len(fs)} : PathOf(f) = doc._source_file).items[1].options

\* the raw options hold the marker somewhere
RawHasMarker(options) ==
    \/ \E i \in 1..Len(options.items) : CorruptedOption(options.items[i])
    \/ \E i \in 1..Len(options.entries) : CorruptedEntry(options.entries[i])
    \/ HasMarker(options.text)

\* C22 (search text is marker-free, the raw field is kept): once the catalog is
\* loaded, and after every search, the options search text of every document
\* holds no marker, whatever the shape of its options, and the options field of
\* every document is still the one read from its file.
C22_MarkerFreeSearchText ==
    mounted =>
        \A i \in 1..Len(docs) :
            /\ ~HasMarker(_extract_options_text(docs[i]))
            /\ docs[i].options = RawOptions(docs[i])

\* C22 happens: after a search the catalog holds documents whose raw options hold
\* the marker in a list of mappings, in a list of strings, in a mapping and in a
\* scalar, and one of them has a search text that is not empty
C22_Witness ==
    /\ last = "submit"
    /\ NormalizedQuery # <<>>
    /\ \E a, b, c, d \in 1..Len(docs) :
           /\ docs[a].options.shape = "list" /\ RawHasMarker(docs[a].options)
           /\ \E k \in 1..Len(docs[a].options.items) : docs[a].options.items[k].kind = "dict"
           /\ _extract_options_text(docs[a]) # <<>>
           /\ docs[b].options.shape = "list" /\ RawHasMarker(docs[b].options)
           /\ \E k \in 1..Len(docs[b].options.items) : docs[b].options.items[k].kind = "str"
           /\ docs[c].options.shape = "dict" /\ RawHasMarker(docs[c].options)
           /\ docs[d].options.shape = "scalar" /\ RawHasMarker(docs[d].options)

-----------------------------------------------------------------------------
(* Shapes of the options field (SearchSpec) *)

\* the options {"-v": "verbose output"}
VerboseMapping == DictOptions(<<[k |-> <<"-","v">>, vIsStr |-> TRUE, v |-> <<"v","e","r","b","o","s","e"," ","o","u","t","p","u","t">>]>>)

\* the options [{"flags": ["-v"], "explanation": "verbose output"}]
VerboseListAsStated ==
    ListOptions(<<DictOption(NoVal, NoVal, ListVal(<<<<"-","v">>>>), StrVal(<<"v","e","r","b","o","s","e"," ","o","u","t","p","u","t">>))>>)

\* the options [{"flag": ["-v"], "explains": "verbose output"}]
VerboseListAsRead ==
    ListOptions(<<DictOption(ListVal(<<<<"-","v">>>>), StrVal(<<"v","e","r","b","o","s","e"," ","o","u","t","p","u","t">>), NoVal, NoVal)>>)

\* the documents with the options a and the documents with the options b have the
\* same options search text, and a search for verbose returns both or neither
SameForVerbose(a, b) ==
    \A i, j \in 1..Len(docs) :
        (docs[i].options = a /\ docs[j].options = b)
            => /\ _extract_options_text(docs[i]) = _extract_options_text(docs[j])
               /\ (Rendered /\ NormalizedQuery = <<"v","e","r","b","o","s","e">>)
                      => (Contains(filtered_docs, docs[i]) <=> Contains(filtered_docs, docs[j]))

-----------------------------------------------------------------------------
(* The New Command dialog (ValidationSpec, DialogSpec) *)

\* the value is a text with a character that is no blank
HasText(v) == v.t = "str" /\ \E k \in 1..Len(v.s) : ~IsSpace(v.s[k])

\* the options and examples of the candidate are absent or well-shaped
WellShaped(doc) ==
    doc.options.shape \in {"absent", "list", "dict"} /\ doc.examples \in {"absent", "list", "str"}

\* what the claim requires of a candidate, for an allow-list and a strict mode
Complete(doc, allowed, strict) ==
    /\ HasText(doc.name) \/ HasText(doc.command) \/ HasText(doc.title)
    /\ HasText(doc.description)
    /\ HasText(doc.usage) \/ HasText(doc.syntax)
    /\ HasText(doc.category)
    /\ strict => doc.category.s \in allowed

\* C24 (write-back validation): for a candidate whose options and examples are
\* absent or well-shaped, the Validate button of either copy of the dialog reports
\* "Valid" if and only if the candidate has a non-empty name, description, usage
\* or syntax, and category, the category being in the allow-list of that copy
\* when its strict mode is on.
C24_WriteBackValidation ==
    (dialog.editor.kind = "mapping" /\ WellShaped(dialog.editor.doc))
        => /\ dialog.did = <<"parse", "validate">>
                  => (dialog.msg = "Valid"
                         <=> Complete(dialog.editor.doc, models_ALLOWED_CATEGORIES,
                                      models_STRICT_CATEGORIES))
           /\ dialog.did = <<"parse", "tui validate">>
                  => (dialog.msg = "Valid"
                         <=> Complete(dialog.editor.doc, ALLOWED_CATEGORIES, STRICT_CATEGORIES))


-----------------------------------------------------------------------------
(* C25: saving a candidate never overwrites a file *)

\* the step is a press of Save that reached the write
SaveStep == Len(dialog'.did) >= 3 /\ dialog'.did[3] = "write"

\* text with every character other than letters, digits, - and _ replaced by _
Sanitized(text, safe) ==
    /\ Len(safe) = Len(text)
    /\ \A k \in 1..Len(text) :
           safe[k] = (IF IsAlnum(text[k]) \/ text[k] = "-" \/ text[k] = "_" THEN text[k] ELSE "_")

\* the name of a candidate: the first of name, command and title that is given
CandidateName(doc) ==
    IF HasText(doc.name) THEN doc.name.s
    ELSE IF HasText(doc.command) THEN doc.command.s
    ELSE doc.title.s

\* the text of the key name alone: empty when the key is absent, None when null
NameFieldText(doc) ==
    IF doc.name.t = "str" THEN doc.name.s
    ELSE IF doc.name.t = "null" THEN <<"N","o","n","e">> ELSE <<>>

Taken(tree, cat, stem) ==
    \E k \in 1..Len(tree) : tree[k].dir = cat /\ tree[k].stem = stem /\ tree[k].ext = <<"y","m","l">>

\* stem is <safe> when free, otherwise <safe>-<i> for the smallest free i >= 2
SmallestFree(tree, cat, safe, stem) ==
    /\ ~Taken(tree, cat, stem)
    /\ \/ stem = safe
       \/ /\ Taken(tree, cat, safe)
          /\ \E i \in 2..(MaxDialogFiles + 2) :
                 /\ stem = safe \o <<"-">> \o Decimal(i)
                 /\ \A j \in 2..(i - 1) : Taken(tree, cat, safe \o <<"-">> \o Decimal(j))

\* the files before the step are in the tree after it, unchanged, and a
\* successful save added one file, of a stem made from the text name
SavedCollisionFree(name) ==
    /\ \A k \in 1..Len(fs) : k <= Len(fs') /\ fs'[k] = fs[k]
    /\ dialog'.msg = "Saved" =>
           /\ Len(fs') = Len(fs) + 1
           /\ fs'[Len(fs')].dir = dialog.editor.doc.category.s
           /\ fs'[Len(fs')].ext = <<"y","m","l">>
           /\ \E safe \in {fs'[Len(fs')].stem, SubSeq(fs'[Len(fs')].stem, 1, Len(name)), <<"c","o","m","m","a","n","d">>} :
                  /\ Sanitized(name, safe) \/ (name = <<>> /\ safe = <<"c","o","m","m","a","n","d">>)
                  /\ SmallestFree(fs, dialog.editor.doc.category.s, safe, fs'[Len(fs')].stem)

-----------------------------------------------------------------------------
(* C26: the order of validation, write, reload and dismissal on Save *)

\* position of a step in the record of what the handler did, 0 if not done
Position(did, step) ==
    IF \E k \in 1..Len(did) : did[k] = step
    THEN CHOOSE k \in 1..Len(did) : did[k] = step
    ELSE 0

\* the step wrote the whole candidate to a new file
SuccessfulWrite ==
    /\ Len(fs') = Len(fs) + 1
    /\ fs'[Len(fs')].kind = "mapping"

\* the handler ended with one of the messages of a refused or failed save
Refused ==
    /\ dialog.open
    /\ Position(dialog'.did, "parse") = 1
    /\ dialog'.msg \in {"YAML parse error", "Top-level must be a mapping", "Fix before save",
                        "Validation issues", "Failed to write file"}

\* C26: the tree changes only on a press of Save over a candidate that parses
\* to a mapping and has no validation issue; a successful write is followed by
\* a reload of the catalog from the new tree and then by the dismissal of the
\* dialog; a parse error, a validation issue or a failed write leaves the
\* catalog and the displayed result as they were and the dialog open
C26_SaveProtocol ==
    [][/\ fs' # fs =>
              /\ dialog.open
              /\ dialog.editor.kind = "mapping"
              /\ _validate_doc_minimal(dialog.editor.doc) = <<>>
              /\ Position(dialog'.did, "validate") > 0
              /\ Position(dialog'.did, "validate") < Position(dialog'.did, "write")
       /\ SuccessfulWrite =>
              /\ docs' = load_all_commands(fs')
              /\ last' = "reload"
              /\ ~dialog'.open
              /\ Position(dialog'.did, "write") < Position(dialog'.did, "reload")
              /\ Position(dialog'.did, "reload") < Position(dialog'.did, "dismiss")
       /\ Refused =>
              /\ dialog'.open
              /\ docs' = docs /\ filtered_docs' = filtered_docs /\ last' = last
              /\ Position(dialog'.did, "reload") = 0
              /\ Position(dialog'.did, "dismiss") = 0]_vars

\* a candidate was saved, the catalog was reloaded with it and the dialog is closed
C26_Witness ==
    /\ ~dialog.open
    /\ dialog.did = <<"parse", "validate", "write", "reload", "dismiss">>
    /\ last = "reload"
    /\ \E k \in 1..Len(docs) : docs[k].name = dialog.editor.doc.name.s


-----------------------------------------------------------------------------
(* C27: strict mode enumerates the allow-listed category directories only *)

\* the commands of the unified loader all come from a directory of its allow-list
UnifiedFromAllowed ==
    \A k \in 1..Len(commands) : commands[k]._source_path.dir \in ALLOWED_CATEGORIES

\* the documents of the catalog all come from a directory of the allow-list of
\* app/models.py
CatalogFromAllowed ==
    \A k \in 1..Len(docs) : docs[k]._category_dir \in models_ALLOWED_CATEGORIES

\* C27: when strict mode is on, every loaded document comes from a file under
\* an allow-listed category directory, for the unified loader and for the
\* loader of the catalog alike
C27_StrictEnumeration ==
    /\ (STRICT_CATEGORIES /\ loaded = "yes") => UnifiedFromAllowed
    /\ (models_STRICT_CATEGORIES /\ mounted) => CatalogFromAllowed


-----------------------------------------------------------------------------
(* C28: a reload applies the text of the search box to the new catalog *)

\* C28: after a reload the displayed result is what a search for the text in
\* the search box gives over the catalog just loaded, each of its documents is
\* a document of that catalog, and it is empty when the catalog is empty
C28_ReloadReappliesQuery ==
    last = "reload"
        => /\ filtered_docs = _apply_filters_and_render(docs, search_input)
           /\ \A k \in 1..Len(filtered_docs) : \E j \in 1..Len(docs) : docs[j] = filtered_docs[k]
           /\ docs = <<>> => filtered_docs = <<>>

\* a reload has replaced the catalog while the search box held a query, and
\* the query selects some but not all documents of the new catalog
C28_Witness ==
    /\ last = "reload"
    /\ replaced
    /\ SearchText(search_input) # <<>>
    /\ filtered_docs # <<>>
    /\ Len(filtered_docs) < Len(docs)


-----------------------------------------------------------------------------
(* C29: a saved candidate is in the catalog after the reload *)

\* the handler of Save has just written the candidate, reloaded and dismissed
JustSaved ==
    /\ ~dialog.open
    /\ Position(dialog.did, "write") > 0
    /\ Position(dialog.did, "reload") > 0

\* the catalog holds a document with the name and the category of the candidate
InCatalog(doc) ==
    \E k \in 1..Len(docs) :
        /\ docs[k].name = CandidateName(doc)
        /\ docs[k].category = doc.category.s

\* C29: after a successful save and the reload that follows it the catalog
\* holds a document with the name and the category of the candidate, whichever
\* of the keys name, command and title gave the name
C29_SaveReloadRoundTrip ==
    JustSaved => InCatalog(dialog.editor.doc)


-----------------------------------------------------------------------------
(* C30: the focus cycle of the main screen *)

\* the widgets of the focus cycle: search box, results table, mounted details
Cycle == focus_order \o screen.details

Focused(widget) == [screen EXCEPT !.focused = widget]

\* next moves one place along the cycle and from its last place to its first
NextFollowsCycle ==
    \A i \in 1..Len(Cycle) :
        FocusAfterNext(Focused(Cycle[i])) = Cycle[IF i = Len(Cycle) THEN 1 ELSE i + 1]

\* previous undoes next and next undoes previous, from every widget of the cycle
NextAndPreviousInverse ==
    \A i \in 1..Len(Cycle) :
        /\ FocusAfterPrevious(Focused(FocusAfterNext(Focused(Cycle[i])))) = Cycle[i]
        /\ FocusAfterNext(Focused(FocusAfterPrevious(Focused(Cycle[i])))) = Cycle[i]

\* C30: on the mounted main screen action_focus_next moves the focus through
\* search box, results table and the mounted detail widgets in that order and
\* wraps, and action_focus_previous is its inverse from every widget of the
\* cycle, whether detail widgets are mounted or not
C30_FocusCycling ==
    mounted => NextFollowsCycle /\ NextAndPreviousInverse

=============================================================================
